---- MODULE Spec2Model ----
(***************************************************************************)
(* Model of the domain-scoped breadth-first URL finder of verseodin_engine *)
(* (services/finder/finder_service.py).  One behaviour is one call of      *)
(* FinderService.find_urls on a freshly built FinderService, which is how  *)
(* every caller in the repository uses it (FinderFactory.build, then one   *)
(* find_urls).  The asyncio event loop runs one coroutine at a time, so    *)
(* every action is the code between two await points.                      *)
(***************************************************************************)
EXTENDS Integers, Sequences, FiniteSets, TLC

(* ------------------------------ bounds --------------------------------- *)
MaxDepth == 2
MaxUrls == 3
MaxBatch == 2
MaxConc == 2
MaxLinks == 2
MaxCandidates == 3
MaxFound == 4
MaxToCrawl == 3
MaxCalls == 2
MaxMessages == 2
MaxReceives == 2
MaxTags == 2
MaxWorkSeconds == 3
MaxTaskSeconds == 3
MaxWorkers == 2
MaxDeliveries == 3
MaxNewUrls == 3
MaxRetries == 2

(* ------------------------------ helpers -------------------------------- *)
Min(a, b) == IF a <= b THEN a ELSE b

Max(a, b) == IF a >= b THEN a ELSE b

Range(s) == {s[i] : i \in 1..Len(s)}

\* Body applied to value, with value computed once
Strict(value, Body(_)) == CHOOSE result \in {Body(v) : v \in {value}} : TRUE

\* Python's lst[:n]: the first n elements, and for a negative n everything
\* but the last -n elements.
PySlicePrefix(s, n) ==
    IF n >= 0 THEN SubSeq(s, 1, Min(n, Len(s)))
    ELSE SubSeq(s, 1, Max(Len(s) + n, 0))

\* all sequences over S of length at most n
RECURSIVE SeqsUpTo(_, _)
SeqsUpTo(S, n) ==
    IF n = 0 THEN {<<>>}
    ELSE LET shorter == SeqsUpTo(S, n - 1)
         IN  shorter \cup {Append(s, x) : s \in shorter, x \in S}

\* the sequences over S of length at most n without a repeated element
SeqsNoRepeat(S, n) ==
    {s \in SeqsUpTo(S, n) : \A i, j \in 1..Len(s) : i # j => s[i] # s[j]}

(* ------------------------------- URLs ---------------------------------- *)
\* A URL string is modelled by its urlparse() components; two URL strings are
\* the same string exactly when all components agree.  An input without
\* "http://" or "https://" in front has scheme "".
ParsedUrl(scheme, netloc, path, params, query, fragment) ==
    [scheme |-> scheme, netloc |-> netloc, path |-> path, params |-> params,
     query |-> query, fragment |-> fragment]

\* a URL without ;params and ?query
Url(scheme, netloc, path, fragment) ==
    ParsedUrl(scheme, netloc, path, "", "", fragment)

NoUrl == Url("", "", "", "")

\* the input_url values find_urls is called with
InputUrls == { Url("", "a.com", "/x", "") }

\* validate_input_url: prepend https:// when the input has no scheme
validate_input_url(url) ==
    IF url.scheme \in {"http", "https"} THEN url
    ELSE [url EXCEPT !.scheme = "https"]

\* extract_homepage_from_url: scheme://netloc
extract_homepage_from_url(url) ==
    LET parsed == validate_input_url(url)
    IN  Url(parsed.scheme, parsed.netloc, "", "")

\* the absolute URLs (after urljoin) that pages of the site may link to
Hrefs ==
    { Url("https", "a.com", "", ""),
      Url("https", "a.com", "/x", ""),
      Url("http", "a.com", "/x", ""),
      Url("https", "a.com", "/y", ""),
      Url("https", "a.com", "/x", "f"),
      Url("https", "a.com", "/d.pdf", ""),
      Url("https", "b.com", "/x", "") }

AllUrls == Hrefs \cup {extract_homepage_from_url(i) : i \in InputUrls}

\* EXCLUDED_EXTENSIONS of the finder's config module
EXCLUDED_EXTENSIONS == {".pdf"}

\* str.lower(): every upper-case ASCII letter replaced by its lower-case one
UpperLetters == "ABCDEFGHIJKLMNOPQRSTUVWXYZ"

LowerLetters == "abcdefghijklmnopqrstuvwxyz"

CharAt(s, i) == SubSeq(s, i, i)

\* the lower-case letter of every upper-case letter
LowerMap ==
    [c \in {CharAt(UpperLetters, i) : i \in 1..Len(UpperLetters)} |->
        CharAt(LowerLetters, CHOOSE i \in 1..Len(UpperLetters) :
                                 CharAt(UpperLetters, i) = c)]

LowerChar(c) == IF c \in DOMAIN LowerMap THEN LowerMap[c] ELSE c

RECURSIVE Lower(_)
Lower(s) == IF Len(s) = 0 THEN s
            ELSE LowerChar(CharAt(s, 1)) \o Lower(SubSeq(s, 2, Len(s)))

\* str.endswith
EndsWith(s, suffix) ==
    /\ Len(suffix) <= Len(s)
    /\ SubSeq(s, Len(s) - Len(suffix) + 1, Len(s)) = suffix

StartsWith(s, prefix) ==
    /\ Len(prefix) <= Len(s)
    /\ SubSeq(s, 1, Len(prefix)) = prefix

\* Python's sub in s
Contains(s, sub) ==
    \E i \in 0..(Len(s) - Len(sub)) : SubSeq(s, i + 1, i + Len(sub)) = sub

\* s from position i on
From(s, i) == SubSeq(s, i, Len(s))

\* the part of s before the first character that is in stops (all of s if
\* there is none)
RECURSIVE Before(_, _)
Before(s, stops) ==
    IF Len(s) = 0 \/ CharAt(s, 1) \in stops THEN ""
    ELSE CharAt(s, 1) \o Before(From(s, 2), stops)

\* Python's s.lstrip(chars), s.rstrip(chars) and s.strip() for blanks
LStrip(s, chars) ==
    LET kept == {i \in 1..Len(s) : CharAt(s, i) \notin chars}
    IN  IF kept = {} THEN ""
        ELSE SubSeq(s, CHOOSE i \in kept : \A j \in kept : i <= j, Len(s))

RStrip(s, chars) ==
    LET kept == {i \in 1..Len(s) : CharAt(s, i) \notin chars}
    IN  IF kept = {} THEN ""
        ELSE SubSeq(s, 1, CHOOSE i \in kept : \A j \in kept : i >= j)

Strip(s) == Strict(LStrip(s, {" "}), LAMBDA t : RStrip(t, {" "}))

\* Python's s.replace(sub, "") for a non-empty sub
RECURSIVE RemoveAll(_, _)
RemoveAll(s, sub) ==
    IF Len(s) = 0 THEN s
    ELSE IF StartsWith(s, sub) THEN RemoveAll(From(s, Len(sub) + 1), sub)
    ELSE CharAt(s, 1) \o RemoveAll(From(s, 2), sub)

\* the characters of the modelled strings in code-point order
CodePoints == " -./0123456789:?ABCDEFGHIJKLMNOPQRSTUVWXYZ_abcdefghijklmnopqrstuvwxyz"

Ord == [c \in {CharAt(CodePoints, i) : i \in 1..Len(CodePoints)} |->
            CHOOSE i \in 1..Len(CodePoints) : CharAt(CodePoints, i) = c]

IsAlpha(c) ==
    \E i \in 1..Len(LowerLetters) :
        c = CharAt(LowerLetters, i) \/ c = CharAt(UpperLetters, i)

\* Python's a < b on strings: at the first position where they differ, a
\* has ended or holds the smaller character
StrLess(a, b) ==
    \E i \in 1..Len(b) :
        /\ Len(a) >= i - 1
        /\ SubSeq(a, 1, i - 1) = SubSeq(b, 1, i - 1)
        /\ \/ Len(a) < i
           \/ Ord[CharAt(a, i)] < Ord[CharAt(b, i)]

\* a list left in the order given
Unsorted(strings) == strings

\* Python's sorted(strings): the element at position i moves behind the
\* smaller elements and the equal elements that stood before it
sorted(strings) ==
    LET place(i) ==
            1 + Cardinality({j \in 1..Len(strings) :
                                \/ StrLess(strings[j], strings[i])
                                \/ strings[j] = strings[i] /\ j < i})
    IN  [r \in 1..Len(strings) |->
            strings[CHOOSE i \in 1..Len(strings) : place(i) = r]]

None == "None"

\* find_doc before find_urls has returned one
NoFindDoc ==
    [urls |-> {}, total_found |-> 0, max_depth_reached |-> 0,
     successful_crawls |-> 0, failed_crawls |-> 0]

(* --------------------------- configuration ----------------------------- *)
\* FindOptions as passed by the caller
OptionValues ==
    [max_depth : 0..MaxDepth,
     max_urls : (-1)..MaxUrls,
     batch_size : 1..MaxBatch,
     max_concurrent_requests : 1..MaxConc,
     proxy : {None, "proxy"}]

\* REQUIRE_PROXY of the finder's config module and the proxy that
\* get_proxy_from_env() resolves from the environment
ConfigValues == [REQUIRE_PROXY : BOOLEAN, env_proxy : {None, "envproxy"}]

\* the proxy set-ups of a call: no proxy needed and none given, and a proxy
\* required with none given, with one in the options, with one in the
\* environment
ProxySetups ==
    { <<FALSE, None, None>>, <<TRUE, None, None>>,
      <<TRUE, "proxy", None>>, <<TRUE, None, "envproxy">> }

(* ------------------------------- state --------------------------------- *)
VARIABLES
    input_url,          \* the input_url of the call
    options,            \* the FindOptions of the call
    config,             \* REQUIRE_PROXY and the environment's proxy
    pc,                 \* position of find_urls
    error,              \* the exception find_urls raised, or None
    proxy_url,          \* self.proxy_url
    homepage_url,       \* homepage_url of find_urls
    domain,             \* self.domain
    successful_urls,    \* self.successful_urls
    failed_urls,        \* self.failed_urls
    max_depth_reached,  \* self.max_depth_reached
    depth,              \* loop variable of find_urls
    next_depth_urls,    \* find_urls' next_depth_urls
    urls_to_crawl,      \* urls_to_crawl of the current depth
    batch_idx,          \* batch_idx of _process_depth_with_progress
    depth_new_urls,     \* next_depth_urls local to _process_depth_with_progress
    tasks,              \* the coroutines of the running _process_batch
    semaphore,          \* free permits of the batch's asyncio.Semaphore
    inflight,           \* _crawl_url calls awaiting session.get
    find_doc,           \* the returned FindDoc
    fetch_count,        \* history: session.get calls issued per URL
    fold_count,         \* history: results folded into the visited sets per URL
    reached,            \* history: a fold left |successful_urls| >= max_urls
    rejected_hrefs,     \* history: links the running batch's pages had out of scope
    stop_reason,        \* history: why the depth loop ended
    fn_pc,              \* position of a directly called helper function
    candidate_urls,     \* urls_list handed to _deduplicate_urls
    deduplicated,       \* what _deduplicate_urls returned for urls_list
    deduplicated_again, \* what it returned for its own output
    found_urls,         \* urls handed to select_urls_to_crawl
    max_to_crawl,       \* its max_urls
    found_homepage,     \* its homepage_url
    selected,           \* what select_urls_to_crawl returned
    reordered,          \* history: the second call got another order
    selected_reordered, \* what it returned for reordered
    call_no,            \* history: find_urls calls made on this FinderService
    sqs_bodies,         \* the Body of every message of the input queue
    sqs_state,          \* per message: visible, invisible (received) or deleted
    receive_count,      \* per message: how often ReceiveMessage returned it
    worker_pc,          \* position of main of the SQS worker
    msg,                \* msg of main: the message in hand
    task_outcome,       \* history: how process_task ended for msg
    run_until_stage,    \* options.run_until_stage of QueryUniverseService.process
    enable_llm_processing, \* options.enable_llm_processing
    query_is_url,       \* is_valid_url(query)
    finder_result,      \* what _find_urls returned: none, empty or urls
    process_pc,         \* position of process
    invoked,            \* history: the stages process invoked, in order
    completed_stage,    \* result.completed_stage
    scope_url,          \* the URL handed to the scope filters
    scope_domain,       \* the crawl domain
    require_same_domain, \* options.require_same_domain of the processor's filter
    finder_verdict,     \* what _is_valid_domain_url returned
    processor_verdict,  \* what _is_valid_url_for_domain returned
    fetch_response,     \* what session.get answered to _crawl_url
    fetch_result,       \* what _crawl_url returned
    classified,         \* the buckets the selector appended its one URL to
    page_tags,          \* the elements with an href of a fetched page, in document order
    crawl_links,        \* new_urls of _crawl_url for the page
    processor_links,    \* what URLProcessorService.extract_links returns for the page
    link_frontier,      \* the links of the page that the result loop collects
    clock,              \* time.monotonic(), in seconds since the worker started
    now,                \* the reading of time.monotonic() at the top of the loop
    work_deadline,      \* start + args.work_seconds
    hard_deadline,      \* start + args.total_seconds
    task_timeout,       \* args.task_timeout
    window_pc,          \* position of main in its loop and idle phase
    received_at,        \* the times at which receive_message was called
    job_row,            \* the row of the job in table query_universe
    row_history,        \* the values the row has had, oldest first
    qu_pc,              \* position of each query universe worker in main_loop
    pipeline_runs,      \* how often service.process was run for the job
    deliveries,         \* how often SQS has delivered the message of the job
    state_row,          \* the InputState row: url_finder_status and updated_at
    state_history,      \* the values the InputState row has had, oldest first
    finder_pc,          \* position of each execution of task url_finder
    finder_return,      \* what each execution of url_finder returned
    crawl_runs,         \* how often generator.find_urls was run for the state
    crawler_status,     \* url_crawler_status of the InputState
    url_status,         \* the status of each URL row of the state, by id
    crawler_pc,         \* position of the execution of url_crawler that claimed the state
    crawl_batches,      \* the crawl_batch subtasks of the chord and whether each has run
    crawl_settings,     \* max_to_claim and whether the state has a proxy
    crawler_runs,       \* how often url_crawler was started for the state
    crawl_options,      \* proxy and retries of the default options and of the options of the call
    hx_pc,              \* position of HttpxCrawler.fetch
    tries,              \* the number of attempts fetch allows itself
    attempts,           \* the responses of the attempts made so far, oldest first
    doc_status,         \* status of fetch
    doc_meta            \* meta of fetch: success and error

vars == <<input_url, options, config, pc, error, proxy_url, homepage_url, domain, successful_urls,
          failed_urls, max_depth_reached, depth, next_depth_urls,
          urls_to_crawl, batch_idx, depth_new_urls, tasks, semaphore,
          inflight, find_doc, fetch_count, fold_count, reached,
          rejected_hrefs, stop_reason, fn_pc, candidate_urls, deduplicated,
          deduplicated_again, found_urls, max_to_crawl, found_homepage,
          selected, reordered, selected_reordered, call_no, sqs_bodies,
          sqs_state, receive_count, worker_pc, msg, task_outcome,
          run_until_stage, enable_llm_processing, query_is_url, finder_result,
          process_pc, invoked, completed_stage, scope_url, scope_domain,
          require_same_domain, finder_verdict, processor_verdict,
          fetch_response, fetch_result, classified,
          page_tags, crawl_links, processor_links, link_frontier,
          clock, now, work_deadline, hard_deadline, task_timeout, window_pc, received_at,
          job_row, row_history, qu_pc, pipeline_runs, deliveries,
          state_row, state_history, finder_pc, finder_return, crawl_runs,
          crawler_status, url_status, crawler_pc, crawl_batches, crawl_settings, crawler_runs,
          crawl_options, hx_pc, tries, attempts, doc_status, doc_meta>>

\* the variables of the helper functions called on their own
dedupState == <<candidate_urls, deduplicated, deduplicated_again>>

selectState == <<found_urls, max_to_crawl, found_homepage, selected,
                 reordered, selected_reordered>>

workerState == <<sqs_bodies, sqs_state, receive_count, worker_pc, msg, task_outcome>>

processState == <<run_until_stage, enable_llm_processing, query_is_url,
                  finder_result, process_pc, invoked, completed_stage>>

filterState == <<scope_url, scope_domain, require_same_domain, finder_verdict,
                 processor_verdict>>

fetchState == <<fetch_response, fetch_result>>

classifyState == <<classified>>

extractState == <<page_tags, crawl_links, processor_links, link_frontier>>

windowState == <<clock, now, work_deadline, hard_deadline, task_timeout, window_pc, received_at>>

jobState == <<job_row, row_history, qu_pc, pipeline_runs, deliveries>>

finderTaskState == <<state_row, state_history, finder_pc, finder_return, crawl_runs>>

crawlTaskState == <<crawler_status, url_status, crawler_pc, crawl_batches, crawl_settings, crawler_runs>>

httpxState == <<crawl_options, hx_pc, tries, attempts, doc_status, doc_meta>>

moreState == <<classifyState,
              extractState,
              windowState,
              jobState,
              finderTaskState,
              crawlTaskState,
              httpxState>>

\* the variables only the other specifications change
otherState == <<call_no, workerState, processState, filterState, fetchState,
                moreState>>

functionState == <<fn_pc, dedupState, selectState, otherState>>

crawlState == <<successful_urls, failed_urls, max_depth_reached>>

loopState == <<depth, next_depth_urls, urls_to_crawl, batch_idx, depth_new_urls>>

batchState == <<tasks, semaphore, inflight>>

history == <<fetch_count, fold_count, reached, rejected_hrefs, stop_reason>>

(* ------------------------ URL scope and dedup -------------------------- *)
\* a scope filter that forgets the excluded extensions
_is_valid_domain_url_any_extension(url, dom) == url.netloc = dom

\* a scope filter that forgets the domain
_is_valid_domain_url_any_domain(url, dom) ==
    \A ext \in EXCLUDED_EXTENSIONS : ~EndsWith(Lower(url.path), ext)

\* _is_valid_domain_url: same netloc as the crawl domain, and a path that
\* ends in no excluded extension
_is_valid_domain_url(url, dom) ==
    /\ url.netloc = dom
    /\ \A ext \in EXCLUDED_EXTENSIONS : ~EndsWith(Lower(url.path), ext)

\* key of the second pass of _deduplicate_urls: the URL without its scheme
\* all_processed with the failed URLs forgotten
AllProcessedSuccessOnly(succ, failed) == succ

\* all_processed: every URL already crawled, with either outcome
AllProcessed(succ, failed) == succ \cup failed

PathKey(url) == <<url.netloc, url.path, url.query, url.fragment>>

\* a first pass that lets fragment URLs through
UniqueUrlsKeepFragments(urls_list, all_processed) ==
    LET F[i \in 0..Len(urls_list)] ==
            IF i = 0 THEN <<>>
            ELSE LET url == urls_list[i]
                 IN  IF url \notin all_processed /\ url \notin Range(F[i - 1])
                     THEN Append(F[i - 1], url)
                     ELSE F[i - 1]
    IN F[Len(urls_list)]

\* first pass of _deduplicate_urls: drop fragment URLs, visited URLs and
\* repeated strings, keeping first occurrences in order
UniqueUrls(urls_list, all_processed) ==
    LET F[i \in 0..Len(urls_list)] ==
            IF i = 0 THEN <<>>
            ELSE LET url == urls_list[i]
                 IN  IF url.fragment # "" THEN F[i - 1]
                     ELSE IF url \notin all_processed /\ url \notin Range(F[i - 1])
                          THEN Append(F[i - 1], url)
                          ELSE F[i - 1]
    IN F[Len(urls_list)]

\* a second pass that puts the newest group first
GroupKeysNewestFirst(unique_urls) ==
    LET F[i \in 0..Len(unique_urls)] ==
            IF i = 0 THEN <<>>
            ELSE IF PathKey(unique_urls[i]) \in Range(F[i - 1]) THEN F[i - 1]
                 ELSE <<PathKey(unique_urls[i])>> \o F[i - 1]
    IN F[Len(unique_urls)]

\* second pass: the keys of url_groups in insertion order
GroupKeys(unique_urls) ==
    LET F[i \in 0..Len(unique_urls)] ==
            IF i = 0 THEN <<>>
            ELSE IF PathKey(unique_urls[i]) \in Range(F[i - 1]) THEN F[i - 1]
                 ELSE Append(F[i - 1], PathKey(unique_urls[i]))
    IN F[Len(unique_urls)]

\* a third pass without the scheme preference
PreferFirst(url_group) == url_group[1]

\* third pass: the representative of one group
PreferHttps(url_group) ==
    LET https_urls == SelectSeq(url_group, LAMBDA u : u.scheme = "https")
        http_urls == SelectSeq(url_group, LAMBDA u : u.scheme = "http")
    IN  IF Len(url_group) = 1 THEN url_group[1]
        ELSE IF Len(https_urls) > 0 THEN https_urls[1]
        ELSE IF Len(http_urls) > 0 THEN http_urls[1]
        ELSE url_group[1]

\* a dedup that rewrites every kept URL to https
_deduplicate_urls_forcing_https(urls_list, succ, failed) ==
    LET unique_urls == UniqueUrls(urls_list, AllProcessed(succ, failed))
        keys == GroupKeys(unique_urls)
    IN  [k \in 1..Len(keys) |->
            [PreferHttps(SelectSeq(unique_urls, LAMBDA u : PathKey(u) = keys[k]))
                EXCEPT !.scheme = "https"]]

_deduplicate_urls(urls_list, succ, failed) ==
    LET unique_urls == UniqueUrls(urls_list, AllProcessed(succ, failed))
        keys == GroupKeys(unique_urls)
    IN  [k \in 1..Len(keys) |->
            PreferHttps(SelectSeq(unique_urls, LAMBDA u : PathKey(u) = keys[k]))]

(* ------------------------------ batching ------------------------------- *)
\* number of slices urls_to_crawl[i : i + batch_size], i in range(0, len, batch_size)
NumBatches(urls, batch_size) == (Len(urls) + batch_size - 1) \div batch_size

Batch(urls, batch_size, k) ==
    SubSeq(urls, (k - 1) * batch_size + 1, Min(k * batch_size, Len(urls)))

NoResult(url) == [url |-> url, status |-> "none", new_urls |-> <<>>, error |-> ""]

\* the coroutines crawl_url_with_semaphore(url) handed to asyncio.gather
NewTasks(batch) ==
    [i \in 1..Len(batch) |-> [url |-> batch[i], st |-> "waiting",
                              result |-> NoResult(batch[i])]]

(* ------------------------------ fetching ------------------------------- *)
\* no response
NoResponse == [kind |-> "none", status |-> 0, hrefs |-> <<>>]

\* what session.get may answer for one URL
Responses ==
    [kind : {"non200", "timeout", "exception"}, hrefs : {<<>>}]
    \cup [kind : {"200"}, hrefs : {s \in SeqsUpTo(Hrefs, MaxLinks) :
                                  \A i, j \in 1..Len(s) : s[i] = s[j] => i = j}]

\* _crawl_url: the result dict for one response; hrefs of a 200 page are kept
\* when in scope, in the arbitrary order of list(set(new_urls))
_crawl_url(url, response, dom) ==
    IF response.kind = "200"
    THEN [url |-> url, status |-> "success",
          new_urls |-> SelectSeq(response.hrefs,
                                 LAMBDA u : _is_valid_domain_url(u, dom)),
          error |-> ""]
    ELSE [url |-> url, status |-> "failed", new_urls |-> <<>>,
          error |-> IF response.kind = "non200" THEN "HTTP"
                    ELSE IF response.kind = "timeout" THEN "Timeout"
                    ELSE "Exception"]

\* the links of a 200 page that _crawl_url leaves out of new_urls
OutOfScope(response, dom) ==
    {u \in Range(response.hrefs) : ~_is_valid_domain_url(u, dom)}

\* a gate that admits one coroutine too many
SemaphoreFreeOffByOne(value) == value >= 0

\* asyncio.Semaphore: a permit is free
SemaphoreFree(value) == value > 0

\* a gather that returns once every coroutine has started
GatherAllStarted(ts) == \A i \in 1..Len(ts) : ts[i].st # "waiting"

\* a gather that returns at the first finished coroutine
GatherFirstCompleted(ts) == \E i \in 1..Len(ts) : ts[i].st = "done"

\* asyncio.gather returns when every coroutine has finished
GatherDone(ts) == \A i \in 1..Len(ts) : ts[i].st = "done"

\* a batch that drops the outcomes of the fetches that did not succeed
ProcessedResultsDropFailed(ts) ==
    SelectSeq([i \in 1..Len(ts) |-> ts[i].result], LAMBDA r : r.status = "success")

\* processed_results of _process_batch: one result per coroutine, in batch order
ProcessedResults(ts) == [i \in 1..Len(ts) |-> ts[i].result]

(* ------------------------- folding a batch in -------------------------- *)
\* the result loop of _process_depth_with_progress
FoldResults(batch_results, succ, failed) ==
    LET F[i \in 0..Len(batch_results)] ==
            IF i = 0 THEN [succ |-> succ, failed |-> failed, new |-> <<>>]
            ELSE LET acc == F[i - 1]
                     result == batch_results[i]
                 IN  IF result.status = "success"
                     THEN LET s2 == acc.succ \cup {result.url}
                              G[j \in 0..Len(result.new_urls)] ==
                                  IF j = 0 THEN acc.new
                                  ELSE LET new_url == result.new_urls[j]
                                       IN  IF /\ new_url \notin s2
                                              /\ new_url \notin acc.failed
                                              /\ new_url \notin Range(G[j - 1])
                                           THEN Append(G[j - 1], new_url)
                                           ELSE G[j - 1]
                          IN  [succ |-> s2, failed |-> acc.failed,
                               new |-> G[Len(result.new_urls)]]
                     ELSE [succ |-> acc.succ,
                           failed |-> acc.failed \cup {result.url},
                           new |-> acc.new]
    IN F[Len(batch_results)]

\* "Stop if target reached" inside the batch loop
TargetReachedAfterBatch(succ, max_urls) == Cardinality(succ) >= max_urls

\* a depth loop without its target check
TargetNeverReached(succ, max_urls) == FALSE

\* "Check if target reached" after a depth
TargetReachedAfterDepth(succ, max_urls) == Cardinality(succ) >= max_urls

\* a frontier cut one entry too late
RemainingOneMore(urls, succ, max_urls) ==
    PySlicePrefix(urls, max_urls - Cardinality(succ) + 1)

\* a frontier handed over without the cut to the remaining budget
RemainingUncut(urls, succ, max_urls) == urls

\* the return value of _process_depth_with_progress
RemainingNeeded(urls, succ, max_urls) ==
    PySlicePrefix(urls, max_urls - Cardinality(succ))

\* a depth loop that runs one level too deep: range(0, max_depth + 2)
DepthInRangeOffByOne(d, max_depth) == d < max_depth + 2

\* the depths the for loop of find_urls visits: range(0, max_depth + 1)
DepthInRange(d, max_depth) == d < max_depth + 1

\* a proxy check that looks at the wrong flag
ProxyMissingInverted(require_proxy, resolved) == ~require_proxy /\ resolved = None

\* the proxy check of find_urls
ProxyMissing(require_proxy, resolved) == require_proxy /\ resolved = None

\* a find_urls that does not seed the homepage
SeedNothing(succ, homepage) == succ

\* self.successful_urls.add(homepage_url) before the first fetch
SeedHomepage(succ, homepage) == succ \cup {homepage}

\* self.error_details: set to {} by __init__ and written nowhere else
error_details == {}

\* self.proxy_url = proxy_url or get_proxy_from_env()
ResolveProxy(opt_proxy, env_proxy) == IF opt_proxy # None THEN opt_proxy ELSE env_proxy

(* ------------------- helper functions called on their own ------------- *)
\* no helper function is being called on its own
DedupIdle ==
    /\ candidate_urls = <<>>
    /\ deduplicated = <<>>
    /\ deduplicated_again = <<>>

SelectIdle ==
    /\ found_urls = <<>>
    /\ max_to_crawl = 0
    /\ found_homepage = None
    /\ selected = <<>>
    /\ reordered = FALSE
    /\ selected_reordered = <<>>

\* a FinderService that no find_urls call was made on before
FirstCall == call_no = 1

\* no SQS worker is running
WorkerIdle ==
    /\ sqs_bodies = <<>>
    /\ sqs_state = <<>>
    /\ receive_count = <<>>
    /\ worker_pc = "idle"
    /\ msg = 0
    /\ task_outcome = None

\* no QueryUniverseService.process call is running
ProcessIdle ==
    /\ run_until_stage = None
    /\ enable_llm_processing = FALSE
    /\ query_is_url = FALSE
    /\ finder_result = None
    /\ process_pc = "idle"
    /\ invoked = <<>>
    /\ completed_stage = None

FilterIdle ==
    /\ scope_url = NoUrl
    /\ scope_domain = None
    /\ require_same_domain = None
    /\ finder_verdict = FALSE
    /\ processor_verdict = FALSE

FetchIdle ==
    /\ fetch_response = NoResponse
    /\ fetch_result = NoResult(NoUrl)

\* select_urls_to_crawl is not being called with a single URL
ClassifyIdle == classified = <<>>

\* no page is having its links extracted
ExtractIdle ==
    /\ page_tags = <<>>
    /\ crawl_links = {}
    /\ processor_links = {}
    /\ link_frontier = {}

\* no worker is running against its deadlines
WindowIdle ==
    /\ clock = 0
    /\ now = 0
    /\ work_deadline = 0
    /\ hard_deadline = 0
    /\ task_timeout = 0
    /\ window_pc = "off"
    /\ received_at = {}

\* no query universe worker is running
JobIdle ==
    /\ job_row = [status |-> "missing", started_at |-> 0, result |-> None]
    /\ row_history = <<>>
    /\ qu_pc = <<>>
    /\ pipeline_runs = 0
    /\ deliveries = 0

\* no url_finder task is running
FinderTaskIdle ==
    /\ state_row = [url_finder_status |-> "PENDING", updated_at |-> 0]
    /\ state_history = <<>>
    /\ finder_pc = <<>>
    /\ finder_return = <<>>
    /\ crawl_runs = 0

\* no url_crawler task is running
CrawlTaskIdle ==
    /\ crawler_status = "PENDING"
    /\ url_status = <<>>
    /\ crawler_pc = "off"
    /\ crawl_batches = <<>>
    /\ crawl_settings = [max_to_claim |-> 0, has_proxy |-> FALSE]
    /\ crawler_runs = 0

\* HttpxCrawler.fetch is not running
HttpxIdle ==
    /\ crawl_options = [default_proxy |-> None, proxy |-> None, retries |-> 0]
    /\ hx_pc = "off"
    /\ tries = 0
    /\ attempts = <<>>
    /\ doc_status = 0
    /\ doc_meta = [success |-> FALSE, error |-> None]

MoreIdle ==
    /\ HttpxIdle
    /\ CrawlTaskIdle
    /\ FinderTaskIdle
    /\ JobIdle
    /\ WindowIdle
    /\ ExtractIdle
    /\ ClassifyIdle

OthersIdle ==
    /\ FirstCall
    /\ MoreIdle
    /\ WorkerIdle
    /\ ProcessIdle
    /\ FilterIdle
    /\ FetchIdle

FunctionsIdle ==
    /\ fn_pc = "idle"
    /\ DedupIdle
    /\ SelectIdle
    /\ OthersIdle

(* ------------------------------- Init ---------------------------------- *)
\* a FinderService right after __init__, and a call about to be made
Init ==
    /\ input_url \in InputUrls
    /\ options \in OptionValues
    /\ config \in ConfigValues
    /\ <<config.REQUIRE_PROXY, options.proxy, config.env_proxy>> \in ProxySetups
    /\ pc = "call"
    /\ error = None
    /\ proxy_url = None
    /\ homepage_url = NoUrl
    /\ domain = None
    /\ successful_urls = {}
    /\ failed_urls = {}
    /\ max_depth_reached = 0
    /\ depth = 0
    /\ next_depth_urls = <<>>
    /\ urls_to_crawl = <<>>
    /\ batch_idx = 0
    /\ depth_new_urls = <<>>
    /\ tasks = <<>>
    /\ semaphore = 0
    /\ inflight = {}
    /\ find_doc = NoFindDoc
    /\ fetch_count = [u \in AllUrls |-> 0]
    /\ fold_count = [u \in AllUrls |-> 0]
    /\ reached = FALSE
    /\ rejected_hrefs = {}
    /\ stop_reason = None
    /\ FunctionsIdle

(* ------------------------------ actions -------------------------------- *)
\* find_urls up to the session: resolve the proxy, fail fast when a required
\* proxy is missing, else derive the domain and seed the homepage
Begin ==
    /\ pc = "call"
    /\ proxy_url' = ResolveProxy(options.proxy, config.env_proxy)
    /\ IF ProxyMissing(config.REQUIRE_PROXY, proxy_url')
       THEN /\ pc' = "raised"
            /\ error' = "FindError"
            /\ UNCHANGED <<homepage_url, domain, successful_urls>>
       ELSE /\ pc' = "loop"
            /\ error' = None
            /\ homepage_url' = extract_homepage_from_url(validate_input_url(input_url))
            /\ domain' = homepage_url'.netloc
            /\ successful_urls' = SeedHomepage(successful_urls, homepage_url')
    /\ UNCHANGED <<functionState, input_url, options, config, failed_urls, max_depth_reached, loopState,
                   batchState, find_doc, history>>

\* _process_batch up to the await of gather: a fresh semaphore and one
\* coroutine per URL of the batch
IssueBatch(urls, k) ==
    /\ tasks' = NewTasks(Batch(urls, options.batch_size, k))
    /\ semaphore' = options.max_concurrent_requests
    /\ batch_idx' = k

\* the for loop ran out of depths
LoopExhausted ==
    /\ pc = "loop"
    /\ ~DepthInRange(depth, options.max_depth)
    /\ pc' = "final"
    /\ stop_reason' = "max_depth"
    /\ UNCHANGED <<functionState, input_url, options, config, error, proxy_url, homepage_url, domain, crawlState,
                   loopState, batchState, find_doc, fetch_count, fold_count,
                   reached, rejected_hrefs>>

\* a depth >= 1 with nothing handed over from the previous depth
EmptyFrontier ==
    /\ pc = "loop"
    /\ DepthInRange(depth, options.max_depth)
    /\ depth # 0
    /\ next_depth_urls = <<>>
    /\ max_depth_reached' = depth
    /\ pc' = "final"
    /\ stop_reason' = "empty_frontier"
    /\ UNCHANGED <<functionState, input_url, options, config, error, proxy_url, homepage_url, domain, successful_urls,
                   failed_urls, loopState, batchState, find_doc, fetch_count,
                   fold_count, reached, rejected_hrefs>>

\* top of one depth: choose urls_to_crawl, cut it into batches, issue batch 1
EnterDepth ==
    /\ pc = "loop"
    /\ DepthInRange(depth, options.max_depth)
    /\ depth = 0 \/ next_depth_urls # <<>>
    /\ max_depth_reached' = depth
    /\ urls_to_crawl' = IF depth = 0 THEN <<homepage_url>>
                        ELSE _deduplicate_urls(next_depth_urls, successful_urls,
                                               failed_urls)
    /\ depth_new_urls' = <<>>
    /\ IF NumBatches(urls_to_crawl', options.batch_size) = 0
       THEN /\ pc' = "depth_end"
            /\ batch_idx' = 0
            /\ UNCHANGED <<tasks, semaphore>>
       ELSE /\ pc' = "gather"
            /\ IssueBatch(urls_to_crawl', 1)
    /\ UNCHANGED <<functionState, input_url, options, config, error, proxy_url, homepage_url, domain, successful_urls,
                   failed_urls, depth, next_depth_urls, inflight, find_doc,
                   history>>

\* crawl_url_with_semaphore enters the semaphore and _crawl_url issues
\* session.get
Acquire(i) ==
    /\ pc = "gather"
    /\ tasks[i].st = "waiting"
    /\ SemaphoreFree(semaphore)
    /\ semaphore' = semaphore - 1
    /\ tasks' = [tasks EXCEPT ![i].st = "running"]
    /\ inflight' = inflight \cup {[url |-> tasks[i].url, depth |-> depth,
                                   batch_idx |-> batch_idx, index |-> i]}
    /\ fetch_count' = [fetch_count EXCEPT ![tasks[i].url] = @ + 1]
    /\ UNCHANGED <<functionState, input_url, options, config, pc, error, proxy_url, homepage_url, domain, crawlState,
                   loopState, find_doc, fold_count, reached, rejected_hrefs,
                   stop_reason>>

\* session.get of one in-flight fetch answers; _crawl_url builds its result
\* and the semaphore is released
Complete(f, response) ==
    /\ f \in inflight
    /\ inflight' = inflight \ {f}
    /\ IF pc = "gather" /\ f.depth = depth /\ f.batch_idx = batch_idx
       THEN /\ tasks' = [tasks EXCEPT ![f.index] =
                            [url |-> @.url, st |-> "done",
                             result |-> _crawl_url(f.url, response, domain)]]
            /\ semaphore' = semaphore + 1
       ELSE UNCHANGED <<tasks, semaphore>>
    /\ rejected_hrefs' = rejected_hrefs \cup OutOfScope(response, domain)
    /\ UNCHANGED <<functionState, input_url, options, config, pc, error, proxy_url, homepage_url, domain, crawlState,
                   loopState, find_doc, fetch_count, fold_count, reached,
                   stop_reason>>

\* gather returned: fold the batch's results into the visited sets, then
\* either stop the depth, or issue the next batch
FoldBatch ==
    /\ pc = "gather"
    /\ GatherDone(tasks)
    /\ LET batch_results == ProcessedResults(tasks)
           folded == FoldResults(batch_results, successful_urls, failed_urls)
       IN  /\ successful_urls' = folded.succ
           /\ failed_urls' = folded.failed
           /\ depth_new_urls' = depth_new_urls \o folded.new
           /\ fold_count' = [u \in AllUrls |->
                   fold_count[u] + Cardinality({i \in 1..Len(batch_results) :
                                                   batch_results[i].url = u})]
           /\ reached' = (reached \/ Cardinality(folded.succ) >= options.max_urls)
           /\ rejected_hrefs' = {}
           /\ IF \/ TargetReachedAfterBatch(folded.succ, options.max_urls)
                 \/ batch_idx >= NumBatches(urls_to_crawl, options.batch_size)
              THEN /\ pc' = "depth_end"
                   /\ UNCHANGED <<tasks, semaphore, batch_idx>>
              ELSE /\ pc' = "gather"
                   /\ IssueBatch(urls_to_crawl, batch_idx + 1)
    /\ UNCHANGED <<functionState, input_url, options, config, error, proxy_url, homepage_url, domain, max_depth_reached,
                   depth, next_depth_urls, urls_to_crawl, inflight, find_doc,
                   fetch_count, stop_reason>>

\* _process_depth_with_progress returns the cut frontier; find_urls checks the
\* target and moves to the next depth
EndDepth ==
    /\ pc = "depth_end"
    /\ next_depth_urls' = RemainingNeeded(depth_new_urls, successful_urls,
                                          options.max_urls)
    /\ IF TargetReachedAfterDepth(successful_urls, options.max_urls)
       THEN /\ pc' = "final"
            /\ stop_reason' = "max_urls"
            /\ UNCHANGED depth
       ELSE /\ pc' = "loop"
            /\ depth' = depth + 1
            /\ UNCHANGED stop_reason
    /\ UNCHANGED <<functionState, input_url, options, config, error, proxy_url, homepage_url, domain, crawlState,
                   urls_to_crawl, batch_idx, depth_new_urls, batchState,
                   find_doc, fetch_count, fold_count, reached, rejected_hrefs>>

\* _display_final_results divides by max_urls, then find_urls returns the FindDoc
Finish ==
    /\ pc = "final"
    /\ IF options.max_urls = 0
       THEN /\ pc' = "raised"
            /\ error' = "ZeroDivisionError"
            /\ UNCHANGED find_doc
       ELSE /\ pc' = "returned"
            /\ find_doc' = [urls |-> successful_urls,
                            total_found |-> Cardinality(successful_urls),
                            max_depth_reached |-> max_depth_reached,
                            successful_crawls |-> Cardinality(successful_urls),
                            failed_crawls |-> Cardinality(error_details)]
            /\ UNCHANGED error
    /\ UNCHANGED <<functionState, input_url, options, config, proxy_url, homepage_url, domain, crawlState, loopState,
                   batchState, history>>

Next ==
    \/ Begin
    \/ LoopExhausted
    \/ EmptyFrontier
    \/ EnterDepth
    \/ \E i \in 1..Len(tasks) : Acquire(i)
    \/ \E f \in inflight, response \in Responses : Complete(f, response)
    \/ FoldBatch
    \/ EndDepth
    \/ Finish

Spec == Init /\ [][Next]_vars

(* ------------- find_urls called again on the same FinderService -------- *)
\* the options of the calls made one after the other on one instance
ReuseOptions ==
    {o \in OptionValues : /\ o.max_urls = MaxUrls
                          /\ o.batch_size = MaxBatch
                          /\ o.max_concurrent_requests = MaxConc
                          /\ o.proxy = None}

ReuseInit ==
    /\ Init
    /\ options \in ReuseOptions
    /\ config = [REQUIRE_PROXY |-> FALSE, env_proxy |-> None]

\* the caller calls find_urls once more: the fields __init__ set
\* (successful_urls, failed_urls, max_depth_reached) are what the last call
\* left, the locals of find_urls are new
CallAgain ==
    /\ pc = "returned"
    /\ call_no < MaxCalls
    /\ call_no' = call_no + 1
    /\ pc' = "call"
    /\ input_url' \in InputUrls
    /\ options' \in ReuseOptions
    /\ homepage_url' = NoUrl
    /\ depth' = 0
    /\ next_depth_urls' = <<>>
    /\ urls_to_crawl' = <<>>
    /\ batch_idx' = 0
    /\ depth_new_urls' = <<>>
    /\ tasks' = <<>>
    /\ semaphore' = 0
    /\ find_doc' = NoFindDoc
    /\ fetch_count' = [u \in AllUrls |-> 0]
    /\ fold_count' = [u \in AllUrls |-> 0]
    /\ reached' = FALSE
    /\ stop_reason' = None
    /\ UNCHANGED <<fn_pc, dedupState, selectState, workerState, processState,
                   filterState, fetchState, moreState, config, error, proxy_url,
                   domain, crawlState, inflight, rejected_hrefs>>

ReuseNext ==
    \/ Next
    \/ CallAgain

ReuseSpec == ReuseInit /\ [][ReuseNext]_vars

(* ------------------ _deduplicate_urls called on its own ---------------- *)
\* the candidate URLs: scheme variants of one page, a fragment variant, a
\* query variant, ;params variants (urlparse keeps params out of the path)
\* and a scheme that is neither http nor https
DedupUrls ==
    { ParsedUrl("http", "a.com", "/x", "", "", ""),
      ParsedUrl("https", "a.com", "/x", "", "", ""),
      ParsedUrl("http", "a.com", "/x", "", "", "frag"),
      ParsedUrl("https", "a.com", "/x", "", "q=1", ""),
      ParsedUrl("http", "a.com", "/y", "", "", ""),
      ParsedUrl("http", "a.com", "/y", "p", "", ""),
      ParsedUrl("ftp", "a.com", "/z", "", "", ""),
      ParsedUrl("ftp", "a.com", "/z", "p", "", "") }

\* what the service may already hold in successful_urls and failed_urls
DedupSuccessful ==
    { ParsedUrl("https", "a.com", "/x", "", "", ""),
      ParsedUrl("http", "a.com", "/y", "", "", "") }

DedupFailed == { ParsedUrl("http", "a.com", "/x", "", "", "") }

\* the variables of find_urls
serviceState == <<input_url, options, config, pc, error, proxy_url,
                  homepage_url, domain, crawlState, loopState, batchState,
                  find_doc, history>>

\* no find_urls call is running; the visited sets are set by the caller
NoCall ==
    /\ input_url = NoUrl
    /\ options = [max_depth |-> 0, max_urls |-> 0, batch_size |-> 1,
                  max_concurrent_requests |-> 1, proxy |-> None]
    /\ config = [REQUIRE_PROXY |-> FALSE, env_proxy |-> None]
    /\ pc = "idle"
    /\ error = None
    /\ proxy_url = None
    /\ homepage_url = NoUrl
    /\ domain = None
    /\ max_depth_reached = 0
    /\ depth = 0
    /\ next_depth_urls = <<>>
    /\ urls_to_crawl = <<>>
    /\ batch_idx = 0
    /\ depth_new_urls = <<>>
    /\ tasks = <<>>
    /\ semaphore = 0
    /\ inflight = {}
    /\ find_doc = NoFindDoc
    /\ fetch_count = [u \in AllUrls |-> 0]
    /\ fold_count = [u \in AllUrls |-> 0]
    /\ reached = FALSE
    /\ rejected_hrefs = {}
    /\ stop_reason = None

DedupInit ==
    /\ NoCall
    /\ successful_urls \in SUBSET DedupSuccessful
    /\ failed_urls \in SUBSET DedupFailed
    /\ fn_pc = "dedup"
    /\ candidate_urls \in SeqsUpTo(DedupUrls, MaxCandidates)
    /\ deduplicated = <<>>
    /\ deduplicated_again = <<>>
    /\ SelectIdle
    /\ OthersIdle

\* _deduplicate_urls(candidate_urls)
Deduplicate ==
    /\ fn_pc = "dedup"
    /\ deduplicated' = _deduplicate_urls(candidate_urls, successful_urls, failed_urls)
    /\ fn_pc' = "deduped"
    /\ UNCHANGED <<candidate_urls, deduplicated_again, selectState, otherState,
                   serviceState>>

\* _deduplicate_urls applied to its own output
DeduplicateAgain ==
    /\ fn_pc = "deduped"
    /\ deduplicated_again' = _deduplicate_urls(deduplicated, successful_urls, failed_urls)
    /\ fn_pc' = "deduped_again"
    /\ UNCHANGED <<candidate_urls, deduplicated, selectState, otherState,
                   serviceState>>

DedupNext ==
    \/ Deduplicate
    \/ DeduplicateAgain

DedupSpec == DedupInit /\ [][DedupNext]_vars

(* ------------------------ select_urls_to_crawl ------------------------- *)
\* PRIORITY_PAGE_PATTERNS of the query universe's config module
PRIORITY_PAGE_PATTERNS ==
    << [category |-> "homepage", patterns |-> <<"/", "">>],
       [category |-> "about",
        patterns |-> <<"/about", "/about-us", "/about_us", "/aboutus",
                       "/company", "/who-we-are", "/our-story">>],
       [category |-> "faq",
        patterns |-> <<"/faq", "/faqs", "/frequently-asked-questions",
                       "/help", "/support">>],
       [category |-> "sitemap",
        patterns |-> <<"/sitemap.xml", "/sitemap", "/site-map", "/sitemap.html">>],
       [category |-> "product",
        patterns |-> <<"/products", "/product", "/services", "/service",
                       "/solutions", "/offerings", "/pricing">>],
       [category |-> "blog",
        patterns |-> <<"/blog", "/blogs", "/news", "/articles",
                       "/insights", "/resources", "/stories", "/case-study">>] >>

\* the order with sitemap ahead of product, as the docstring lists it
priority_order_of_docstring ==
    <<"homepage", "about", "faq", "sitemap", "product", "blog", "brand_blog", "other">>

\* priority_order of select_urls_to_crawl
priority_order ==
    <<"homepage", "about", "faq", "product", "brand_blog", "sitemap", "blog", "other">>

\* the length of the "http://" or "https://" that url starts with
SchemeLength(url) ==
    IF StartsWith(url, "https://") THEN 8
    ELSE IF StartsWith(url, "http://") THEN 7
    ELSE 0

\* the netloc of a URL whose scheme prefix has the given length
NetlocAfter(url, scheme_length) ==
    IF scheme_length = 0 THEN ""
    ELSE Before(From(url, scheme_length + 1), {"/", "?", "#"})

ParsedWithNetloc(url, scheme_length, netloc) ==
    [netloc |-> netloc,
     path |-> Before(From(url, scheme_length + Len(netloc) + 1), {"?", "#"})]

ParsedAfter(url, scheme_length) ==
    ParsedWithNetloc(url, scheme_length, NetlocAfter(url, scheme_length))

\* urlparse(url) for a URL that is "http(s)://netloc/path?query#fragment"
\* or a bare path: its netloc and path
urlparse(url) == ParsedAfter(url, SchemeLength(url))

\* get_url_path
get_url_path(url) == Lower(urlparse(url).path)

\* re.sub(r'\.(com|org|net|io|co|ai|app|dev).*$', '', s)
RECURSIVE CutAtTld(_)
CutAtTld(s) ==
    IF Len(s) = 0 THEN s
    ELSE IF /\ CharAt(s, 1) = "."
            /\ \E tld \in {"com", "org", "net", "io", "co", "ai", "app", "dev"} :
                  StartsWith(From(s, 2), tld)
         THEN ""
         ELSE CharAt(s, 1) \o CutAtTld(From(s, 2))

\* extract_brand_name_from_url
extract_brand_name_from_url(url) ==
    Lower(CutAtTld(RemoveAll(urlparse(url).netloc, "www.")))

\* re.sub(r'[^a-zA-Z]+', '', s)
RECURSIVE OnlyAlpha(_)
OnlyAlpha(s) ==
    IF Len(s) = 0 THEN s
    ELSE (IF IsAlpha(CharAt(s, 1)) THEN CharAt(s, 1) ELSE "") \o OnlyAlpha(From(s, 2))

\* the leading run of letters of s
RECURSIVE AlphaPrefix(_)
AlphaPrefix(s) ==
    IF Len(s) = 0 \/ ~IsAlpha(CharAt(s, 1)) THEN ""
    ELSE CharAt(s, 1) \o AlphaPrefix(From(s, 2))

\* the non-empty parts of re.split(r'[^a-zA-Z]+', s)
RECURSIVE AlphaParts(_)
AlphaParts(s) ==
    IF Len(s) = 0 THEN {}
    ELSE IF ~IsAlpha(CharAt(s, 1)) THEN AlphaParts(From(s, 2))
    ELSE {AlphaPrefix(s)} \cup AlphaParts(From(s, Len(AlphaPrefix(s)) + 1))

\* suffixes of brand_tokens_from_domain
suffixes ==
    {"app", "apps", "ai", "tech", "labs", "hq", "inc", "co", "io", "dev",
     "technology"}

\* tokens after the core label and the base were added
SeedTokens(base, core_label) ==
    (IF core_label # "" THEN {core_label} ELSE {}) \cup {base}

\* the cores the loop over list(tokens) and suffixes adds
SuffixCores(tokens) ==
    {Lower(OnlyAlpha(SubSeq(ts[1], 1, Len(ts[1]) - Len(ts[2])))) :
        ts \in {ts \in tokens \X suffixes :
                   /\ EndsWith(ts[1], ts[2])
                   /\ Len(ts[1]) > Len(ts[2]) + 2}} \ {""}

\* the tokens returned for a non-empty base
LongTokens(base, tokens) ==
    {t \in tokens \cup SuffixCores(tokens)
              \cup {Lower(part) : part \in AlphaParts(base)} : Len(t) >= 4}

TokensOfBase(base) ==
    IF base = "" THEN {}
    ELSE LongTokens(base, SeedTokens(base, Before(base, {"."})))

\* brand_tokens_from_domain, as a set
brand_tokens_from_domain(url) == TokensOfBase(extract_brand_name_from_url(url))

\* matches_priority_pattern, from the i-th pattern on
RECURSIVE MatchesFrom(_, _, _)
MatchesFrom(url_path, patterns, i) ==
    IF i > Len(patterns) THEN FALSE
    ELSE IF patterns[i] \in {"/", ""} THEN url_path \in {"/", ""}
    ELSE IF \/ url_path = Lower(patterns[i])
            \/ StartsWith(url_path, Lower(patterns[i]) \o "/")
            \/ StartsWith(url_path, Lower(patterns[i]) \o "?")
            \/ Contains(url_path, Lower(patterns[i]))
         THEN TRUE
         ELSE MatchesFrom(url_path, patterns, i + 1)

matches_priority_pattern(url, patterns) ==
    MatchesFrom(get_url_path(url), patterns, 1)

\* is_brand_blog without a title
is_brand_blog(url, brand_tokens) ==
    \E token \in brand_tokens : token # "" /\ Contains(get_url_path(url), token)

\* a fast path that forgets to set placed
FastPathContinues(taken) == FALSE

\* placed after the brand-blog fast path
FastPathPlaced(taken) == taken

\* a selector without the brand-blog fast path
FastPathNever(url, url_path, tokens_for_url) == FALSE

\* the condition of the brand-blog fast path
FastPath(url, url_path, tokens_for_url) ==
    /\ tokens_for_url # {}
    /\ Contains(url_path, "/blog")
    /\ is_brand_blog(url, tokens_for_url)

\* a loop over priority_patterns that takes the last matching category
RECURSIVE LastMatch(_, _, _)
LastMatch(url, priority_patterns, i) ==
    IF i > Len(priority_patterns) THEN 0
    ELSE IF LastMatch(url, priority_patterns, i + 1) # 0
         THEN LastMatch(url, priority_patterns, i + 1)
    ELSE IF matches_priority_pattern(url, priority_patterns[i].patterns) THEN i
    ELSE 0

\* the first entry of priority_patterns, from the i-th on, that url matches
\* (0 if none does)
RECURSIVE FirstMatch(_, _, _)
FirstMatch(url, priority_patterns, i) ==
    IF i > Len(priority_patterns) THEN 0
    ELSE IF matches_priority_pattern(url, priority_patterns[i].patterns) THEN i
    ELSE FirstMatch(url, priority_patterns, i + 1)

\* what the loop over priority_patterns appends for its matching category
InCategoryLoop(url, url_path, tokens_for_url, category) ==
    IF category = "blog"
    THEN IF RStrip(url_path, {"/"}) \in {"/blog", "blog"} THEN <<>>
         ELSE IF tokens_for_url # {} /\ is_brand_blog(url, tokens_for_url)
              THEN <<"brand_blog">>
              ELSE <<"blog">>
    ELSE <<category>>

\* the brand-blog check made for a URL the loop did not place
LateBrandBlog(url, brand_tokens, priority_patterns) ==
    /\ brand_tokens # {}
    /\ \E i \in 1..Len(priority_patterns) :
          /\ priority_patterns[i].category = "blog"
          /\ \E k \in 1..Len(priority_patterns[i].patterns) :
                Contains(get_url_path(url), priority_patterns[i].patterns[k])
    /\ is_brand_blog(url, brand_tokens)

\* the appends of one round, given the fast path's outcome, placed after it
\* and the matching entry of priority_patterns
BucketsGiven(url, url_path, tokens_for_url, brand_tokens, priority_patterns, fast, placed, match) ==
    (IF fast THEN <<"brand_blog">> ELSE <<>>)
    \o (IF placed \/ match = 0 THEN <<>>
        ELSE InCategoryLoop(url, url_path, tokens_for_url,
                            priority_patterns[match].category))
    \o (IF placed \/ match # 0 THEN <<>>
        ELSE IF LateBrandBlog(url, brand_tokens, priority_patterns)
             THEN <<"brand_blog">>
             ELSE <<"other">>)

BucketsAfterFastPath(url, url_path, tokens_for_url, brand_tokens, priority_patterns, fast) ==
    BucketsGiven(url, url_path, tokens_for_url, brand_tokens, priority_patterns,
                 fast, FastPathPlaced(fast), FirstMatch(url, priority_patterns, 1))

BucketsWith(url, url_path, tokens_for_url, brand_tokens, priority_patterns) ==
    BucketsAfterFastPath(url, url_path, tokens_for_url, brand_tokens,
                         priority_patterns,
                         FastPath(url, url_path, tokens_for_url))

\* the buckets one URL of the loop is appended to, in order; url is the
\* stripped URL
BucketsOf(url, brand_tokens, priority_patterns) ==
    BucketsWith(url, get_url_path(url),
                IF brand_tokens # {} THEN brand_tokens
                ELSE brand_tokens_from_domain(url),
                brand_tokens, priority_patterns)

\* the URLs find_urls may have found: one per bucket (the blog post with the
\* brand in its path is a brand blog only when the brand is known) and a
\* bare blog index
FoundUrls ==
    { "/", "/about", "/faq", "/random", "/pricing", "/sitemap.xml",
      "/blog/", "/blog/acme-tips", "/news/today" }

Homepages == { None, "https://acme.com" }

\* brand_tokens of select_urls_to_crawl
BrandTokens(homepage) ==
    IF homepage # None /\ homepage # "" THEN brand_tokens_from_domain(homepage)
    ELSE {}

\* the stripped URLs the table holds
ConfiguredUrls == {Strip(u) : u \in FoundUrls} \ {""}

\* BucketsOf for the configured patterns, computed once per URL and homepage
ConfiguredBuckets ==
    [url \in ConfiguredUrls, homepage \in Homepages |->
        BucketsOf(url, BrandTokens(homepage), PRIORITY_PAGE_PATTERNS)]

\* BucketsOf for the stripped URL of one round of the loop over urls
BucketsFor(url, homepage, priority_patterns) ==
    IF /\ url \in ConfiguredUrls
       /\ homepage \in Homepages
       /\ priority_patterns = PRIORITY_PAGE_PATTERNS
    THEN ConfiguredBuckets[url, homepage]
    ELSE BucketsOf(url, BrandTokens(homepage), priority_patterns)

\* what one round of the loop over urls appends to categorized[category]
AppendedFor(category, raw_url, homepage, priority_patterns) ==
    Strict(Strip(raw_url),
           LAMBDA url :
               IF url = "" THEN <<>>
               ELSE [k \in 1..Len(SelectSeq(BucketsFor(url, homepage, priority_patterns),
                                            LAMBDA c : c = category)) |-> url])

\* categorized[category] after the loop over urls
categorized(category, urls, homepage, priority_patterns) ==
    LET appended[i \in 0..Len(urls)] ==
            IF i = 0 THEN <<>>
            ELSE appended[i - 1] \o
                 AppendedFor(category, urls[i], homepage, priority_patterns)
    IN  appended[Len(urls)]

\* one round of the loop over priority_order: the k-th category
ExtendWith(chosen, k, urls, max_urls, homepage, priority_patterns) ==
    IF Len(chosen) >= max_urls THEN chosen
    ELSE Strict(categorized(priority_order[k], urls, homepage, priority_patterns),
                LAMBDA bucket :
                    Strict(sorted(bucket),
                           LAMBDA category_urls :
                               chosen \o PySlicePrefix(category_urls,
                                                       max_urls - Len(chosen))))

\* the loop over priority_order up to its k-th category
RECURSIVE Extend(_, _, _, _, _)
Extend(k, urls, max_urls, homepage, priority_patterns) ==
    IF k = 0 THEN <<>>
    ELSE Strict(Extend(k - 1, urls, max_urls, homepage, priority_patterns),
                LAMBDA chosen :
                    ExtendWith(chosen, k, urls, max_urls, homepage, priority_patterns))

select_urls_to_crawl(urls, max_urls, homepage, priority_patterns) ==
    IF Len(urls) = 0 THEN <<>>
    ELSE IF Len(priority_patterns) = 0 THEN PySlicePrefix(sorted(urls), max_urls)
    ELSE Strict(Extend(Len(priority_order), urls, max_urls, homepage,
                       priority_patterns),
                LAMBDA chosen : PySlicePrefix(chosen, max_urls))

\* all orders of a list
Reorderings(urls) ==
    {[i \in 1..Len(urls) |-> urls[f[i]]] :
        f \in {g \in [1..Len(urls) -> 1..Len(urls)] :
                  \A i, j \in 1..Len(urls) : i # j => g[i] # g[j]}}

SelectInit ==
    /\ NoCall
    /\ successful_urls = {}
    /\ failed_urls = {}
    /\ DedupIdle
    /\ OthersIdle
    /\ fn_pc = "select"
    /\ found_urls \in SeqsNoRepeat(FoundUrls, MaxFound)
    /\ max_to_crawl \in 0..MaxToCrawl
    /\ found_homepage \in Homepages
    /\ selected = <<>>
    /\ reordered = FALSE
    /\ selected_reordered = <<>>

\* select_urls_to_crawl(found_urls, ...)
Select ==
    /\ fn_pc = "select"
    /\ selected' = select_urls_to_crawl(found_urls, max_to_crawl, found_homepage,
                                         PRIORITY_PAGE_PATTERNS)
    /\ fn_pc' = "selected"
    /\ UNCHANGED <<found_urls, max_to_crawl, found_homepage,
                   reordered, selected_reordered, dedupState, otherState,
                   crawlState, serviceState>>

\* select_urls_to_crawl called with the same URLs in another order
SelectReordered ==
    /\ fn_pc = "selected"
    /\ \E urls \in Reorderings(found_urls) :
          /\ reordered' = (urls # found_urls)
          /\ selected_reordered' = select_urls_to_crawl(urls, max_to_crawl,
                                                        found_homepage,
                                                        PRIORITY_PAGE_PATTERNS)
    /\ fn_pc' = "selected_reordered"
    /\ UNCHANGED <<found_urls, max_to_crawl, found_homepage,
                   selected, dedupState, otherState, crawlState, serviceState>>

SelectNext ==
    \/ Select
    \/ SelectReordered

SelectSpec == SelectInit /\ [][SelectNext]_vars

(* --------------- select_urls_to_crawl with a single URL ---------------- *)
\* URLs that several rules of the classification apply to
ClassifyUrls ==
    { "/", "/random", "/about", "/blog", "/blog/", "/BLOG", "blog",
      "https://acme-blog.com/blog/", "/blog/acme-tips", "/blogs/acme",
      "/about/blog/acme", "/faq/blog/acme", "/sitemap/blog/acme",
      "/pricing/blog/acme", "/news/acme", "/news/today", "/about/news",
      "/pricing/sitemap", "/faq/pricing", "/acme" }

ClassifyHomepages == { None, "https://acme.com", "https://acme-blog.com" }

\* the variables a call with a single URL leaves alone
notClassify == <<found_urls, max_to_crawl, found_homepage, reordered,
                 selected_reordered, dedupState, call_no, workerState,
                 processState, filterState, fetchState, crawlState,
                 serviceState, extractState, windowState, jobState, finderTaskState, crawlTaskState, httpxState>>

ClassifyInit ==
    /\ HttpxIdle
    /\ CrawlTaskIdle
    /\ FinderTaskIdle
    /\ JobIdle
    /\ WindowIdle
    /\ ExtractIdle
    /\ NoCall
    /\ successful_urls = {}
    /\ failed_urls = {}
    /\ DedupIdle
    /\ FirstCall
    /\ WorkerIdle
    /\ ProcessIdle
    /\ FilterIdle
    /\ FetchIdle
    /\ fn_pc = "classify"
    /\ found_urls \in {<<url>> : url \in ClassifyUrls}
    /\ max_to_crawl \in 0..MaxToCrawl
    /\ found_homepage \in ClassifyHomepages
    /\ selected = <<>>
    /\ reordered = FALSE
    /\ selected_reordered = <<>>
    /\ classified = <<>>

\* select_urls_to_crawl([url], ...): the round of the loop over urls, which
\* appends the URL to its buckets, and the list that is returned
SelectOne ==
    /\ fn_pc = "classify"
    /\ classified' = IF Strip(found_urls[1]) = "" THEN <<>>
                     ELSE BucketsFor(Strip(found_urls[1]), found_homepage,
                                     PRIORITY_PAGE_PATTERNS)
    /\ selected' = select_urls_to_crawl(found_urls, max_to_crawl, found_homepage,
                                         PRIORITY_PAGE_PATTERNS)
    /\ fn_pc' = "classified"
    /\ UNCHANGED notClassify

ClassifyNext == SelectOne

ClassifySpec == ClassifyInit /\ [][ClassifyNext]_vars

(* ------------------------ the SQS worker: main ------------------------- *)
\* the messages of the input queue
Messages == 1..MaxMessages

\* the Body of a message: not JSON; empty or "{}"; a JSON value that is not
\* an object (a non-empty list); an object without "website"; a job
Bodies == {"invalid_json", "empty", "not_object", "no_website", "job"}

\* parse_body: None for a body that is not JSON, else the parsed value
parse_body(message_body) ==
    IF message_body = "invalid_json" THEN None ELSE message_body

\* "if not body": parse_body returned None or an empty value
BodyFalsy(body) == body \in {None, "empty"}

\* "if not website": the object has no "website"
WebsiteMissing(body) == body = "no_website"

\* a worker that deletes the message whatever happened in the try block
ReachesDeleteAlways(outcome, published) == TRUE

\* the delete_message at the end of the try block is reached: process_task
\* returned and publishing the payload did not raise
ReachesDelete(outcome, published) == outcome = "returned" /\ published

\* the variables the worker leaves alone
notWorker == <<fn_pc, dedupState, selectState, call_no, processState,
               filterState, fetchState, serviceState, moreState>>

WorkerInit ==
    /\ NoCall
    /\ successful_urls = {}
    /\ failed_urls = {}
    /\ fn_pc = "idle"
    /\ DedupIdle
    /\ SelectIdle
    /\ FirstCall
    /\ MoreIdle
    /\ ProcessIdle
    /\ FilterIdle
    /\ FetchIdle
    /\ sqs_bodies \in [Messages -> Bodies]
    /\ sqs_state = [m \in Messages |-> "visible"]
    /\ receive_count = [m \in Messages |-> 0]
    /\ worker_pc = "poll"
    /\ msg = 0
    /\ task_outcome = None

\* receive_message returns message m, which SQS hides for the visibility
\* timeout
Receive(m) ==
    /\ worker_pc = "poll"
    /\ sqs_state[m] = "visible"
    /\ receive_count[m] < MaxReceives
    /\ sqs_state' = [sqs_state EXCEPT ![m] = "invisible"]
    /\ receive_count' = [receive_count EXCEPT ![m] = @ + 1]
    /\ msg' = m
    /\ task_outcome' = None
    /\ worker_pc' = "received"
    /\ UNCHANGED <<sqs_bodies, notWorker>>

\* a body that is not JSON or empty, or has no website: delete_message
\* (whose errors are logged and swallowed) and continue
DropMessage(delete_ok) ==
    /\ worker_pc = "received"
    /\ \/ BodyFalsy(parse_body(sqs_bodies[msg]))
       \/ WebsiteMissing(parse_body(sqs_bodies[msg]))
    /\ sqs_state' = IF delete_ok THEN [sqs_state EXCEPT ![msg] = "deleted"]
                    ELSE sqs_state
    /\ task_outcome' = "dropped"
    /\ worker_pc' = "poll"
    /\ UNCHANGED <<sqs_bodies, receive_count, msg, notWorker>>

\* body.get on a parsed value that is no object raises outside the try
\* block: main ends with the exception
Crash ==
    /\ worker_pc = "received"
    /\ parse_body(sqs_bodies[msg]) = "not_object"
    /\ worker_pc' = "crashed"
    /\ UNCHANGED <<sqs_bodies, sqs_state, receive_count, msg, task_outcome,
                   notWorker>>

\* asyncio.run(process_task(website, opts)) is entered
StartTask ==
    /\ worker_pc = "received"
    /\ parse_body(sqs_bodies[msg]) = "job"
    /\ worker_pc' = "processing"
    /\ UNCHANGED <<sqs_bodies, sqs_state, receive_count, msg, task_outcome,
                   notWorker>>

\* process_task returns or raises; after a return the payload is published
\* (json.dumps may raise) and the message deleted; the except clause only logs
TaskEnds(outcome, published, delete_ok) ==
    /\ worker_pc = "processing"
    /\ task_outcome' = outcome
    /\ sqs_state' = IF ReachesDelete(outcome, published) /\ delete_ok
                    THEN [sqs_state EXCEPT ![msg] = "deleted"]
                    ELSE sqs_state
    /\ worker_pc' = "poll"
    /\ UNCHANGED <<sqs_bodies, receive_count, msg, notWorker>>

\* the visibility timeout of a received message runs out
VisibilityExpires(m) ==
    /\ sqs_state[m] = "invisible"
    /\ sqs_state' = [sqs_state EXCEPT ![m] = "visible"]
    /\ UNCHANGED <<sqs_bodies, receive_count, worker_pc, msg, task_outcome,
                   notWorker>>

\* the work window is over: the loop is left
WindowElapsed ==
    /\ worker_pc = "poll"
    /\ worker_pc' = "exited"
    /\ UNCHANGED <<sqs_bodies, sqs_state, receive_count, msg, task_outcome,
                   notWorker>>

WorkerNext ==
    \/ \E m \in Messages : Receive(m)
    \/ \E delete_ok \in BOOLEAN : DropMessage(delete_ok)
    \/ Crash
    \/ StartTask
    \/ \E outcome \in {"returned", "raised"}, published, delete_ok \in BOOLEAN :
          TaskEnds(outcome, published, delete_ok)
    \/ \E m \in Messages : VisibilityExpires(m)
    \/ WindowElapsed

WorkerSpec == WorkerInit /\ [][WorkerNext]_vars

(* ------------------- QueryUniverseService.process --------------------- *)
\* PipelineStage, in pipeline order
PipelineStage == <<"finder", "crawler", "llm">>

\* the values of options.run_until_stage: a PipelineStage or None
RunUntilStages == {"finder", "crawler", "llm", None}

\* what step 1 leaves behind: None (_find_urls failed, or the query is no
\* URL), a FindDoc of which select_urls_to_crawl picked nothing, or a
\* non-empty urls_to_crawl
FinderResults == {None, "nothing_selected", "selected"}

\* a pipeline without the stop checks
NeverStops(run_until, stage) == FALSE

\* "if options.run_until_stage == PipelineStage.X"
StopsAt(run_until, stage) == run_until = stage

\* the variables process leaves alone
notProcess == <<fn_pc, dedupState, selectState, call_no, workerState,
                filterState, fetchState, serviceState, moreState>>

ProcessInit ==
    /\ NoCall
    /\ successful_urls = {}
    /\ failed_urls = {}
    /\ fn_pc = "idle"
    /\ DedupIdle
    /\ SelectIdle
    /\ FirstCall
    /\ MoreIdle
    /\ WorkerIdle
    /\ FilterIdle
    /\ FetchIdle
    /\ run_until_stage \in RunUntilStages
    /\ enable_llm_processing \in BOOLEAN
    /\ query_is_url \in BOOLEAN
    /\ finder_result = None
    /\ process_pc = "step1"
    /\ invoked = <<>>
    /\ completed_stage = None

\* step 1 for a URL query: _find_urls (which swallows every exception and
\* returns None) and the selection of the URLs to crawl
FindStage(found) ==
    /\ process_pc = "step1"
    /\ query_is_url
    /\ invoked' = Append(invoked, "finder")
    /\ finder_result' = found
    /\ process_pc' = "after_finder"
    /\ UNCHANGED <<run_until_stage, enable_llm_processing, query_is_url,
                   completed_stage, notProcess>>

\* step 1 for a query that is no URL: the finder is skipped
SkipFinder ==
    /\ process_pc = "step1"
    /\ ~query_is_url
    /\ process_pc' = "after_finder"
    /\ UNCHANGED <<run_until_stage, enable_llm_processing, query_is_url,
                   finder_result, invoked, completed_stage, notProcess>>

\* the stop check after step 1
StopAtFinder ==
    /\ process_pc = "after_finder"
    /\ StopsAt(run_until_stage, "finder")
    /\ completed_stage' = "finder"
    /\ process_pc' = "returned"
    /\ UNCHANGED <<run_until_stage, enable_llm_processing, query_is_url,
                   finder_result, invoked, notProcess>>

\* step 2 with URLs to crawl: _crawl_urls, whose crawler_factory.build may
\* raise (process then raises QueryUniverseError); errors of single URLs
\* are swallowed
CrawlStage(raises) ==
    /\ process_pc = "after_finder"
    /\ ~StopsAt(run_until_stage, "finder")
    /\ finder_result = "selected"
    /\ invoked' = Append(invoked, "crawler")
    /\ process_pc' = IF raises THEN "raised" ELSE "after_crawler"
    /\ UNCHANGED <<run_until_stage, enable_llm_processing, query_is_url,
                   finder_result, completed_stage, notProcess>>

\* step 2 without URLs to crawl
SkipCrawler ==
    /\ process_pc = "after_finder"
    /\ ~StopsAt(run_until_stage, "finder")
    /\ finder_result # "selected"
    /\ process_pc' = "after_crawler"
    /\ UNCHANGED <<run_until_stage, enable_llm_processing, query_is_url,
                   finder_result, invoked, completed_stage, notProcess>>

\* the stop check after step 2
StopAtCrawler ==
    /\ process_pc = "after_crawler"
    /\ StopsAt(run_until_stage, "crawler")
    /\ completed_stage' = "crawler"
    /\ process_pc' = "returned"
    /\ UNCHANGED <<run_until_stage, enable_llm_processing, query_is_url,
                   finder_result, invoked, notProcess>>

\* step 3 with LLM processing enabled: _process_with_llm, then the return
LlmStage(raises) ==
    /\ process_pc = "after_crawler"
    /\ ~StopsAt(run_until_stage, "crawler")
    /\ enable_llm_processing
    /\ invoked' = Append(invoked, "llm")
    /\ completed_stage' = IF raises THEN completed_stage ELSE "llm"
    /\ process_pc' = IF raises THEN "raised" ELSE "returned"
    /\ UNCHANGED <<run_until_stage, enable_llm_processing, query_is_url,
                   finder_result, notProcess>>

\* step 3 with LLM processing disabled, then the return
SkipLlm ==
    /\ process_pc = "after_crawler"
    /\ ~StopsAt(run_until_stage, "crawler")
    /\ ~enable_llm_processing
    /\ completed_stage' = "llm"
    /\ process_pc' = "returned"
    /\ UNCHANGED <<run_until_stage, enable_llm_processing, query_is_url,
                   finder_result, invoked, notProcess>>

ProcessNext ==
    \/ \E found \in FinderResults : FindStage(found)
    \/ SkipFinder
    \/ StopAtFinder
    \/ \E raises \in BOOLEAN : CrawlStage(raises)
    \/ SkipCrawler
    \/ StopAtCrawler
    \/ \E raises \in BOOLEAN : LlmStage(raises)
    \/ SkipLlm

ProcessSpec == ProcessInit /\ [][ProcessNext]_vars

(* ----------------------- the two scope filters ------------------------- *)
\* the URL strings the filters are asked about, by their components
ScopeUrls ==
    {ParsedUrl(scheme, netloc, path, "", query, "") :
        scheme \in {"http", "https", "ftp"},
        netloc \in {"a.com", "b.com", "[a.com"},
        path \in {"", "/x", "/d.pdf", "/D.PDF"},
        query \in {"", "v=1", "f=a.pdf"}}

\* the values of FindOptions.require_same_domain: Optional[bool]
SameDomainValues == {None, "True", "False"}

\* urlparse raises ValueError ("Invalid IPv6 URL") for a netloc with one
\* bracket only
UrlParses(url) == Contains(url.netloc, "[") <=> Contains(url.netloc, "]")

\* the URL string of the components
urlunparse(url) ==
    url.scheme \o "://" \o url.netloc \o url.path
    \o (IF url.params = "" THEN "" ELSE ";" \o url.params)
    \o (IF url.query = "" THEN "" ELSE "?" \o url.query)
    \o (IF url.fragment = "" THEN "" ELSE "#" \o url.fragment)

\* FinderService._is_valid_domain_url with its except branch
FinderFilter(url, dom) == UrlParses(url) /\ _is_valid_domain_url(url, dom)

\* "options.require_same_domain if ... is not None else True"
RequireSameDomain(option) == option # "False"

\* URLProcessorService._is_valid_url_for_domain with the default
\* excluded extensions: the extension test looks at the whole URL string
_is_valid_url_for_domain(url, dom, option) ==
    /\ UrlParses(url)
    /\ RequireSameDomain(option) => url.netloc = dom
    /\ url.scheme \in {"http", "https"}
    /\ \A ext \in EXCLUDED_EXTENSIONS : ~EndsWith(Lower(urlunparse(url)), ext)

\* the variables the filters leave alone
notFilter == <<dedupState, selectState, call_no, workerState, processState,
               fetchState, serviceState, moreState>>

FilterInit ==
    /\ NoCall
    /\ successful_urls = {}
    /\ failed_urls = {}
    /\ fn_pc = "filter"
    /\ DedupIdle
    /\ SelectIdle
    /\ FirstCall
    /\ MoreIdle
    /\ WorkerIdle
    /\ ProcessIdle
    /\ FetchIdle
    /\ scope_url \in ScopeUrls
    /\ scope_domain = "a.com"
    /\ require_same_domain \in SameDomainValues
    /\ finder_verdict = FALSE
    /\ processor_verdict = FALSE

\* both filters are asked about the same URL
ApplyFilters ==
    /\ fn_pc = "filter"
    /\ finder_verdict' = FinderFilter(scope_url, scope_domain)
    /\ processor_verdict' =
           _is_valid_url_for_domain(scope_url, scope_domain, require_same_domain)
    /\ fn_pc' = "filtered"
    /\ UNCHANGED <<scope_url, scope_domain, require_same_domain, notFilter>>

FilterNext == ApplyFilters

FilterSpec == FilterInit /\ [][FilterNext]_vars

(* ------------------------- _crawl_url on its own ----------------------- *)
\* the HTTP statuses session.get may deliver (redirects are followed)
Statuses == {200, 201, 204, 206, 404, 500}

\* the URL that is fetched, and the crawl domain
FetchedUrl == Url("https", "a.com", "/x", "")

\* what session.get does: an HTTP response with a status and the links of
\* its body, a timeout, or another exception
FetchResponses ==
    [kind : {"response"}, status : Statuses,
     hrefs : {s \in SeqsUpTo(Hrefs, MaxLinks) :
                 \A i, j \in 1..Len(s) : s[i] = s[j] => i = j}]
    \cup [kind : {"timeout", "exception"}, status : {0}, hrefs : {<<>>}]

\* "if response.status != 200": the branch _crawl_url takes
BranchOf(response) ==
    [kind |-> IF response.kind # "response" THEN response.kind
              ELSE IF response.status # 200 THEN "non200" ELSE "200",
     hrefs |-> IF response.kind = "response" /\ response.status = 200
               THEN response.hrefs ELSE <<>>]

\* the variables _crawl_url leaves alone
notFetch == <<dedupState, selectState, call_no, workerState, processState,
              filterState, serviceState, moreState>>

FetchInit ==
    /\ NoCall
    /\ successful_urls = {}
    /\ failed_urls = {}
    /\ fn_pc = "fetch"
    /\ DedupIdle
    /\ SelectIdle
    /\ FirstCall
    /\ MoreIdle
    /\ WorkerIdle
    /\ ProcessIdle
    /\ FilterIdle
    /\ fetch_response \in FetchResponses
    /\ fetch_result = NoResult(NoUrl)

\* _crawl_url(url, depth, session) returns its result dict
CrawlUrl ==
    /\ fn_pc = "fetch"
    /\ fetch_result' = _crawl_url(FetchedUrl, BranchOf(fetch_response),
                                  FetchedUrl.netloc)
    /\ fn_pc' = "fetched"
    /\ UNCHANGED <<fetch_response, notFetch>>

FetchNext == CrawlUrl

FetchSpec == FetchInit /\ [][FetchNext]_vars

(* --------------------------- link extraction --------------------------- *)
\* the page whose links are extracted
PageUrl == Url("https", "a.com", "/x", "")

\* the elements find_all is asked for
Tags == {"a", "area", "link"}

\* the href attribute values of the page; the absolute ones carry no query
\* and no fragment
RawHrefs ==
    { "#top", "javascript:void(0)", "mailto:x@a.com", "tel:123",
      "/y", "/d.pdf", "https://b.com/x", "" }

\* the elements with an href attribute, as find_all(..., href=True) sees them
PageTags == [tag : Tags, href : RawHrefs]

\* the prefixes extract_links skips
SkippedPrefixes == {"#", "javascript:", "mailto:", "tel:"}

\* href.startswith(("#", "javascript:", "mailto:", "tel:"))
StartsWithSkipped(href) == \E prefix \in SkippedPrefixes : StartsWith(href, prefix)

\* urljoin(base, href): a fragment-only reference keeps the base and takes
\* the fragment, an http(s) URL stands for itself, a rooted path replaces the
\* path of the base, and a reference with another scheme is returned as it is
urljoin(base, href) ==
    IF href = "" THEN base
    ELSE IF StartsWith(href, "#")
         THEN [base EXCEPT !.fragment = From(href, 2)]
    ELSE IF SchemeLength(href) > 0
         THEN Url(Before(href, {":"}), urlparse(href).netloc,
                  urlparse(href).path, "")
    ELSE IF StartsWith(href, "/") THEN Url(base.scheme, base.netloc, href, "")
    ELSE Url(Before(href, {":"}), "", From(href, Len(Before(href, {":"})) + 2), "")

\* the loop of _crawl_url over soup.find_all("a", href=True)
CrawlNewUrls(tags, url, dom) ==
    {urljoin(url, tags[i].href) : i \in {k \in 1..Len(tags) :
        /\ tags[k].tag = "a"
        /\ tags[k].href # ""
        /\ _is_valid_domain_url(urljoin(url, tags[k].href), dom)}}

\* URLProcessorService.extract_links
extract_links(tags, base_url, dom, option) ==
    {urljoin(base_url, Strip(tags[i].href)) : i \in {k \in 1..Len(tags) :
        /\ Strip(tags[k].href) # ""
        /\ ~StartsWithSkipped(Strip(tags[k].href))
        /\ _is_valid_url_for_domain(urljoin(base_url, Strip(tags[k].href)),
                                    dom, option)}}

\* a set as a list in some order
ListOf(S) == CHOOSE s \in [1..Cardinality(S) -> S] : Range(s) = S

\* the variables link extraction leaves alone
notExtract == <<dedupState, selectState, call_no, workerState, processState,
                filterState, fetchState, crawlState, serviceState,
                classifyState, windowState, jobState, finderTaskState, crawlTaskState, httpxState>>

ExtractInit ==
    /\ HttpxIdle
    /\ CrawlTaskIdle
    /\ FinderTaskIdle
    /\ JobIdle
    /\ WindowIdle
    /\ NoCall
    /\ successful_urls = {}
    /\ failed_urls = {}
    /\ fn_pc = "extract"
    /\ DedupIdle
    /\ SelectIdle
    /\ FirstCall
    /\ WorkerIdle
    /\ ProcessIdle
    /\ FilterIdle
    /\ FetchIdle
    /\ ClassifyIdle
    /\ page_tags \in SeqsUpTo(PageTags, MaxTags)
    /\ crawl_links = {}
    /\ processor_links = {}
    /\ link_frontier = {}

\* URLProcessorService.extract_links(html, base_url, domain)
ExtractLinks ==
    /\ fn_pc = "extract"
    /\ processor_links' = extract_links(page_tags, PageUrl, PageUrl.netloc, None)
    /\ fn_pc' = "extracted"
    /\ UNCHANGED <<page_tags, crawl_links, link_frontier, notExtract>>

\* _crawl_url on a 200 page, and the result loop over its result
CrawlPage ==
    /\ fn_pc = "extracted"
    /\ crawl_links' = CrawlNewUrls(page_tags, PageUrl, PageUrl.netloc)
    /\ link_frontier' =
           Range(FoldResults(<<[url |-> PageUrl, status |-> "success",
                                new_urls |-> ListOf(crawl_links'),
                                error |-> ""]>>,
                             successful_urls, failed_urls).new)
    /\ fn_pc' = "crawled"
    /\ UNCHANGED <<page_tags, processor_links, notExtract>>

ExtractNext ==
    \/ ExtractLinks
    \/ CrawlPage

ExtractSpec == ExtractInit /\ [][ExtractNext]_vars

(* ------------------- the worker and its deadlines ---------------------- *)
\* args.work_seconds, args.total_seconds and args.task_timeout
WorkSeconds == 0..MaxWorkSeconds

TotalSeconds == 0..(MaxWorkSeconds + 1)

TaskTimeouts == 0..(MaxWorkSeconds - 1)

\* args.wait_time_seconds and args.poll_seconds, as bounds of the clock
WaitTimeSeconds == 1

PollSeconds == 1

\* the time by which every run has left its loop
MaxClock == MaxWorkSeconds + WaitTimeSeconds + MaxTaskSeconds

\* the variables of the service, its helpers, the pipeline and the queue
coreState == <<fn_pc, dedupState, selectState, call_no, workerState,
               processState, filterState, fetchState, serviceState>>

\* none of them is in use
CoreIdle ==
    /\ NoCall
    /\ successful_urls = {}
    /\ failed_urls = {}
    /\ fn_pc = "idle"
    /\ DedupIdle
    /\ SelectIdle
    /\ FirstCall
    /\ WorkerIdle
    /\ ProcessIdle
    /\ FilterIdle
    /\ FetchIdle

\* a worker that fetches whatever time is left for the task
TooLateNever(time_left_for_task, timeout) == FALSE

\* "if time_left_for_task < args.task_timeout"
TooLate(time_left_for_task, timeout) == time_left_for_task < timeout

\* the variables the deadlines leave alone
notWindow == <<coreState, classifyState, extractState, jobState, finderTaskState, crawlTaskState, httpxState>>

WindowInit ==
    /\ HttpxIdle
    /\ CrawlTaskIdle
    /\ FinderTaskIdle
    /\ JobIdle
    /\ CoreIdle
    /\ ClassifyIdle
    /\ ExtractIdle
    /\ clock = 0
    /\ now = 0
    /\ work_deadline \in WorkSeconds
    /\ hard_deadline \in TotalSeconds
    /\ task_timeout \in TaskTimeouts
    /\ window_pc = "top"
    /\ received_at = {}

\* "if now >= work_deadline: break"
WorkWindowElapsed ==
    /\ window_pc = "top"
    /\ clock >= work_deadline
    /\ now' = clock
    /\ window_pc' = "idle_phase"
    /\ UNCHANGED <<clock, work_deadline, hard_deadline, task_timeout,
                   received_at, notWindow>>

\* "if now >= hard_deadline: return"
HardDeadlineReached ==
    /\ window_pc = "top"
    /\ clock < work_deadline
    /\ clock >= hard_deadline
    /\ now' = clock
    /\ window_pc' = "exited"
    /\ UNCHANGED <<clock, work_deadline, hard_deadline, task_timeout,
                   received_at, notWindow>>

\* "Skipping fetch": too little of the work window is left for a task
SkipFetch ==
    /\ window_pc = "top"
    /\ clock < work_deadline
    /\ clock < hard_deadline
    /\ TooLate(work_deadline - clock, task_timeout)
    /\ now' = clock
    /\ window_pc' = "idle_phase"
    /\ UNCHANGED <<clock, work_deadline, hard_deadline, task_timeout,
                   received_at, notWindow>>

\* receive_message is called
CallReceive ==
    /\ window_pc = "top"
    /\ clock < work_deadline
    /\ clock < hard_deadline
    /\ ~TooLate(work_deadline - clock, task_timeout)
    /\ now' = clock
    /\ received_at' = received_at \cup {clock}
    /\ window_pc' = "receiving"
    /\ UNCHANGED <<clock, work_deadline, hard_deadline, task_timeout, notWindow>>

\* the long poll returns after waited seconds, with a message or without
ReceiveReturns(waited, got_message) ==
    /\ window_pc = "receiving"
    /\ clock + waited <= MaxClock
    /\ clock' = clock + waited
    /\ window_pc' = IF got_message THEN "handling" ELSE "sleeping"
    /\ UNCHANGED <<now, work_deadline, hard_deadline, task_timeout,
                   received_at, notWindow>>

\* "if not msg: time.sleep(args.poll_seconds); continue"
PollSleep ==
    /\ window_pc = "sleeping"
    /\ clock + PollSeconds <= MaxClock
    /\ clock' = clock + PollSeconds
    /\ window_pc' = "top"
    /\ UNCHANGED <<now, work_deadline, hard_deadline, task_timeout,
                   received_at, notWindow>>

\* a message without a job is deleted: continue
DropAndContinue ==
    /\ window_pc = "handling"
    /\ window_pc' = "top"
    /\ UNCHANGED <<clock, now, work_deadline, hard_deadline, task_timeout,
                   received_at, notWindow>>

\* body.get raises on a body that is no object: main ends with the exception
RaiseOnBody ==
    /\ window_pc = "handling"
    /\ window_pc' = "crashed"
    /\ UNCHANGED <<clock, now, work_deadline, hard_deadline, task_timeout,
                   received_at, notWindow>>

\* the try block: process_task returns or raises after took seconds; nothing
\* holds it to task_timeout
RunTask(took) ==
    /\ window_pc = "handling"
    /\ clock + took <= MaxClock
    /\ clock' = clock + took
    /\ window_pc' = "top"
    /\ UNCHANGED <<now, work_deadline, hard_deadline, task_timeout,
                   received_at, notWindow>>

\* the idle phase: sleep for what remains until the hard deadline, then
\* main returns
IdleUntilHardDeadline ==
    /\ window_pc = "idle_phase"
    /\ clock' = IF hard_deadline - clock > 0 THEN hard_deadline ELSE clock
    /\ window_pc' = "exited"
    /\ UNCHANGED <<now, work_deadline, hard_deadline, task_timeout,
                   received_at, notWindow>>

WindowNext ==
    \/ WorkWindowElapsed
    \/ HardDeadlineReached
    \/ SkipFetch
    \/ CallReceive
    \/ \E waited \in 0..WaitTimeSeconds, got_message \in BOOLEAN :
          ReceiveReturns(waited, got_message)
    \/ PollSleep
    \/ DropAndContinue
    \/ RaiseOnBody
    \/ \E took \in 1..MaxTaskSeconds : RunTask(took)
    \/ IdleUntilHardDeadline

WindowSpec == WindowInit /\ [][WindowNext]_vars

(* -------------------- the query universe worker ------------------------ *)
QuWorkers == 1..MaxWorkers

\* the status column; "missing" stands for no row with the id
JobStatuses == {"queued", "running", "succeeded", "failed", "missing"}

\* the rows a delivered job_id may find
JobRows ==
    { [status |-> "missing", started_at |-> 0, result |-> None],
      [status |-> "queued", started_at |-> 0, result |-> None],
      [status |-> "running", started_at |-> 1, result |-> None],
      [status |-> "succeeded", started_at |-> 1, result |-> "payload"],
      [status |-> "failed", started_at |-> 1, result |-> "error_text"] }

\* an UPDATE ... WHERE id = %s without the status test
MatchesAnyStatus(row) == row.status # "missing"

\* the WHERE clause of mark_running: id = %s AND status = 'queued'
MatchesQueued(row) == row.status = "queued"

\* the UPDATE of mark_running on the row; rowcount is 1 when it matched
mark_running(row) ==
    IF MatchesQueued(row)
    THEN [row |-> [row EXCEPT !.status = "running", !.started_at = @ + 1],
          rowcount |-> 1]
    ELSE [row |-> row, rowcount |-> 0]

\* the UPDATE of mark_finished: WHERE id = %s only
mark_finished(row, status) ==
    IF row.status = "missing" THEN row
    ELSE [row EXCEPT !.status = status,
                     !.result = IF status = "succeeded" THEN "payload"
                                ELSE "error_text"]

\* the variables the query universe workers leave alone
notJob == <<coreState, classifyState, extractState, windowState, finderTaskState, crawlTaskState, httpxState>>

JobInit ==
    /\ HttpxIdle
    /\ CrawlTaskIdle
    /\ FinderTaskIdle
    /\ CoreIdle
    /\ ClassifyIdle
    /\ ExtractIdle
    /\ WindowIdle
    /\ job_row \in JobRows
    /\ row_history = <<job_row>>
    /\ qu_pc = [w \in QuWorkers |-> "poll"]
    /\ pipeline_runs = 0
    /\ deliveries = 0

\* receive_message hands the message of the job to worker w: a first
\* delivery, a duplicate, or a redelivery after the visibility timeout
ReceiveJob(w) ==
    /\ qu_pc[w] = "poll"
    /\ deliveries < MaxDeliveries
    /\ deliveries' = deliveries + 1
    /\ qu_pc' = [qu_pc EXCEPT ![w] = "received"]
    /\ UNCHANGED <<job_row, row_history, pipeline_runs, notJob>>

\* process_job: mark_running claimed the job
ClaimJob(w) ==
    /\ qu_pc[w] = "received"
    /\ mark_running(job_row).rowcount = 1
    /\ job_row' = mark_running(job_row).row
    /\ row_history' = Append(row_history, job_row')
    /\ qu_pc' = [qu_pc EXCEPT ![w] = "claimed"]
    /\ UNCHANGED <<pipeline_runs, deliveries, notJob>>

\* process_job: "not in queued state; skipping"
SkipJob(w) ==
    /\ qu_pc[w] = "received"
    /\ mark_running(job_row).rowcount # 1
    /\ job_row' = mark_running(job_row).row
    /\ qu_pc' = [qu_pc EXCEPT ![w] = "skipped"]
    /\ UNCHANGED <<row_history, pipeline_runs, deliveries, notJob>>

\* fetch_job found the row: asyncio.run(service.process(...)) is entered
StartPipeline(w) ==
    /\ qu_pc[w] = "claimed"
    /\ pipeline_runs' = pipeline_runs + 1
    /\ qu_pc' = [qu_pc EXCEPT ![w] = "pipeline"]
    /\ UNCHANGED <<job_row, row_history, deliveries, notJob>>

\* the pipeline returned or raised: mark_finished with the outcome
FinishJob(w, status) ==
    /\ qu_pc[w] = "pipeline"
    /\ job_row' = mark_finished(job_row, status)
    /\ row_history' = Append(row_history, job_row')
    /\ qu_pc' = [qu_pc EXCEPT ![w] = "finished"]
    /\ UNCHANGED <<pipeline_runs, deliveries, notJob>>

\* the worker process is stopped while the pipeline runs
WorkerKilled(w) ==
    /\ qu_pc[w] = "pipeline"
    /\ qu_pc' = [qu_pc EXCEPT ![w] = "killed"]
    /\ UNCHANGED <<job_row, row_history, pipeline_runs, deliveries, notJob>>

\* process_job returned: delete_message, next iteration
DeleteJobMessage(w) ==
    /\ qu_pc[w] \in {"skipped", "finished"}
    /\ qu_pc' = [qu_pc EXCEPT ![w] = "poll"]
    /\ UNCHANGED <<job_row, row_history, pipeline_runs, deliveries, notJob>>

JobNext ==
    \/ \E w \in QuWorkers : ReceiveJob(w)
    \/ \E w \in QuWorkers : ClaimJob(w)
    \/ \E w \in QuWorkers : SkipJob(w)
    \/ \E w \in QuWorkers : StartPipeline(w)
    \/ \E w \in QuWorkers, status \in {"succeeded", "failed"} : FinishJob(w, status)
    \/ \E w \in QuWorkers : WorkerKilled(w)
    \/ \E w \in QuWorkers : DeleteJobMessage(w)

JobSpec == JobInit /\ [][JobNext]_vars

(* ----------------------- the url_finder task --------------------------- *)
\* the executions of url_finder for one state_id: duplicate deliveries,
\* redeliveries and retries
FinderTasks == 1..MaxDeliveries

\* the values of Status
TaskStatuses == {"PENDING", "RUNNING", "FINISHED", "FAILED"}

\* a claim that also takes a state that is being processed
CLAIMABLE_OR_RUNNING == {"PENDING", "RUNNING"}

\* CLAIMABLE = (Status.PENDING,)
CLAIMABLE == {"PENDING"}

\* filter(pk=state_id, url_finder_status__in=from_statuses).update(
\*     url_finder_status=to_status, updated_at=timezone.now()): the row after
\* the update and the number of rows matched
UpdateStatus(row, from_statuses, to_status) ==
    IF row.url_finder_status \in from_statuses
    THEN [row |-> [url_finder_status |-> to_status,
                   updated_at |-> row.updated_at + 1],
          matched |-> 1]
    ELSE [row |-> row, matched |-> 0]

\* the history with the row added when an update changed it
Recorded(hist, row) ==
    IF row = hist[Len(hist)] THEN hist ELSE Append(hist, row)

\* the variables the url_finder task leaves alone
notFinderTask == <<coreState, classifyState, extractState, windowState, jobState, crawlTaskState, httpxState>>

FinderTaskInit ==
    /\ HttpxIdle
    /\ CrawlTaskIdle
    /\ CoreIdle
    /\ ClassifyIdle
    /\ ExtractIdle
    /\ WindowIdle
    /\ JobIdle
    /\ state_row \in [url_finder_status : TaskStatuses, updated_at : {0}]
    /\ state_history = <<state_row>>
    /\ finder_pc = [t \in FinderTasks |-> "start"]
    /\ finder_return = [t \in FinderTasks |-> None]
    /\ crawl_runs = 0

\* the claim: one UPDATE of the row if its status is claimable
ClaimState(t) ==
    /\ finder_pc[t] = "start"
    /\ state_row' = UpdateStatus(state_row, CLAIMABLE, "RUNNING").row
    /\ state_history' = Recorded(state_history, state_row')
    /\ finder_pc' = [finder_pc EXCEPT ![t] =
           IF UpdateStatus(state_row, CLAIMABLE, "RUNNING").matched = 0
           THEN "unclaimed" ELSE "claimed"]
    /\ UNCHANGED <<finder_return, crawl_runs, notFinderTask>>

\* "if claimed == 0": return {"status": "skipped", ...}
ReturnSkipped(t) ==
    /\ finder_pc[t] = "unclaimed"
    /\ finder_pc' = [finder_pc EXCEPT ![t] = "returned"]
    /\ finder_return' = [finder_return EXCEPT ![t] = "skipped"]
    /\ UNCHANGED <<state_row, state_history, crawl_runs, notFinderTask>>

\* _validate raises: _mark_failed, return failure
ValidateFails(t) ==
    /\ finder_pc[t] = "claimed"
    /\ state_row' = UpdateStatus(state_row, {"RUNNING"}, "FAILED").row
    /\ state_history' = Recorded(state_history, state_row')
    /\ finder_pc' = [finder_pc EXCEPT ![t] = "returned"]
    /\ finder_return' = [finder_return EXCEPT ![t] = "failure"]
    /\ UNCHANGED <<crawl_runs, notFinderTask>>

\* asyncio.run(generator.find_urls(...)) returns, or raises: _mark_failed
RunFinder(t, raises) ==
    /\ finder_pc[t] = "claimed"
    /\ crawl_runs' = crawl_runs + 1
    /\ state_row' = IF raises
                    THEN UpdateStatus(state_row, {"RUNNING"}, "FAILED").row
                    ELSE state_row
    /\ state_history' = Recorded(state_history, state_row')
    /\ finder_pc' = [finder_pc EXCEPT ![t] = IF raises THEN "returned" ELSE "found"]
    /\ finder_return' = [finder_return EXCEPT ![t] = IF raises THEN "failure" ELSE @]
    /\ UNCHANGED notFinderTask

\* the bulk insertion and the move to FINISHED in one transaction; when it
\* raises, the transaction is rolled back and _mark_failed runs
BulkInsert(t, raises) ==
    /\ finder_pc[t] = "found"
    /\ state_row' = UpdateStatus(state_row, {"RUNNING"},
                                 IF raises THEN "FAILED" ELSE "FINISHED").row
    /\ state_history' = Recorded(state_history, state_row')
    /\ finder_pc' = [finder_pc EXCEPT ![t] = "returned"]
    /\ finder_return' = [finder_return EXCEPT ![t] =
                            IF raises THEN "failure" ELSE "success"]
    /\ UNCHANGED <<crawl_runs, notFinderTask>>

\* the Celery worker is lost while the task runs
FinderTaskLost(t) ==
    /\ finder_pc[t] \in {"claimed", "found"}
    /\ finder_pc' = [finder_pc EXCEPT ![t] = "lost"]
    /\ UNCHANGED <<state_row, state_history, finder_return, crawl_runs,
                   notFinderTask>>

FinderTaskNext ==
    \/ \E t \in FinderTasks : ClaimState(t)
    \/ \E t \in FinderTasks : ReturnSkipped(t)
    \/ \E t \in FinderTasks : ValidateFails(t)
    \/ \E t \in FinderTasks, raises \in BOOLEAN : RunFinder(t, raises)
    \/ \E t \in FinderTasks, raises \in BOOLEAN : BulkInsert(t, raises)
    \/ \E t \in FinderTasks : FinderTaskLost(t)

FinderTaskSpec == FinderTaskInit /\ [][FinderTaskNext]_vars

(* ----------------------- the url_crawler task -------------------------- *)
\* the cap of one wave when CRAWLER_MAX_URLS_PER_RUN is not set
WaveCap == 10000

\* max_to_claim: int(CRAWLER_MAX_URLS_PER_RUN), or the cap of a wave
MaxToClaimValues == {1, 2, WaveCap}

\* batch_size: 25 in the code, here a bound scaled to the number of URLs
batch_size == 2

\* the ids of the rows with the given status, in the order of their ids
IdsWithStatus(statuses, status) ==
    SelectSeq([i \in 1..Len(statuses) |-> i], LAMBDA i : statuses[i] = status)

\* URL.objects.claim_batch(filter_by status NEW, order_by id, limit): the
\* ids of the first limit NEW rows
claim_batch(statuses, limit) ==
    PySlicePrefix(IdsWithStatus(statuses, "NEW"), limit)

\* the chunks of the claimed ids, one crawl_batch subtask each
Chunks(ids) ==
    [k \in 1..NumBatches(ids, batch_size) |->
        [url_ids |-> Batch(ids, batch_size, k), done |-> FALSE]]

\* the variables the url_crawler task leaves alone
notCrawlTask == <<coreState, classifyState, extractState, windowState, jobState,
                  finderTaskState, httpxState>>

CrawlTaskInit ==
    /\ HttpxIdle
    /\ CoreIdle
    /\ ClassifyIdle
    /\ ExtractIdle
    /\ WindowIdle
    /\ JobIdle
    /\ FinderTaskIdle
    /\ crawler_status = "PENDING"
    /\ \E n \in 0..MaxNewUrls : url_status = [i \in 1..n |-> "NEW"]
    /\ crawler_pc = "start"
    /\ crawl_batches = <<>>
    /\ crawl_settings \in [max_to_claim : MaxToClaimValues, has_proxy : BOOLEAN]
    /\ crawler_runs = 0

\* url_crawler claims the state: PENDING -> RUNNING
ClaimCrawl ==
    /\ crawler_pc = "start"
    /\ crawler_status \in CLAIMABLE
    /\ crawler_status' = "RUNNING"
    /\ crawler_pc' = "claimed"
    /\ crawler_runs' = crawler_runs + 1
    /\ UNCHANGED <<url_status, crawl_batches, crawl_settings, notCrawlTask>>

\* _validate raises for a state without a proxy: the except clause marks the
\* state FAILED
ValidateRaises ==
    /\ crawler_pc = "claimed"
    /\ ~crawl_settings.has_proxy
    /\ crawler_status' = IF crawler_status = "RUNNING" THEN "FAILED"
                         ELSE crawler_status
    /\ crawler_pc' = "returned"
    /\ UNCHANGED <<url_status, crawl_batches, crawl_settings, crawler_runs,
                   notCrawlTask>>

\* claim_batch found no NEW URL: RUNNING -> FINISHED
NothingToDo ==
    /\ crawler_pc = "claimed"
    /\ crawl_settings.has_proxy
    /\ claim_batch(url_status, crawl_settings.max_to_claim) = <<>>
    /\ crawler_status' = IF crawler_status = "RUNNING" THEN "FINISHED"
                         ELSE crawler_status
    /\ crawler_pc' = "returned"
    /\ UNCHANGED <<url_status, crawl_batches, crawl_settings, crawler_runs,
                   notCrawlTask>>

\* claim_batch moves up to max_to_claim NEW URLs to IN_PROGRESS, and the
\* chord of their batches is launched
LaunchBatches ==
    /\ crawler_pc = "claimed"
    /\ crawl_settings.has_proxy
    /\ claim_batch(url_status, crawl_settings.max_to_claim) # <<>>
    /\ url_status' =
           [i \in 1..Len(url_status) |->
               IF i \in Range(claim_batch(url_status, crawl_settings.max_to_claim))
               THEN "IN_PROGRESS" ELSE url_status[i]]
    /\ crawl_batches' = Chunks(claim_batch(url_status, crawl_settings.max_to_claim))
    /\ crawler_pc' = "launched"
    /\ UNCHANGED <<crawler_status, crawl_settings, crawler_runs, notCrawlTask>>

\* crawl_batch runs to completion: _crawl_and_update leaves each of its URLs
\* CRAWLED or FAILED
CrawlBatch(k, outcomes) ==
    /\ k \in 1..Len(crawl_batches)
    /\ ~crawl_batches[k].done
    /\ url_status' =
           [i \in 1..Len(url_status) |->
               IF i \in Range(crawl_batches[k].url_ids) THEN outcomes[i]
               ELSE url_status[i]]
    /\ crawl_batches' = [crawl_batches EXCEPT ![k].done = TRUE]
    /\ UNCHANGED <<crawler_status, crawler_pc, crawl_settings, crawler_runs,
                   notCrawlTask>>

\* the chord callback, once every batch has returned: the state stays
\* RUNNING when a NEW URL is left, else it moves to FINISHED
FinalizeBatches ==
    /\ crawler_pc = "launched"
    /\ \A k \in 1..Len(crawl_batches) : crawl_batches[k].done
    /\ crawler_status' =
           IF crawler_status = "RUNNING"
           THEN (IF IdsWithStatus(url_status, "NEW") # <<>> THEN "RUNNING"
                 ELSE "FINISHED")
           ELSE crawler_status
    /\ crawler_pc' = "finalized"
    /\ UNCHANGED <<url_status, crawl_batches, crawl_settings, crawler_runs,
                   notCrawlTask>>

\* url_crawler is started again for the state: the claim matches no row and
\* the task returns "skipped"
CrawlSkipped ==
    /\ crawler_pc # "start"
    /\ crawler_status \notin CLAIMABLE
    /\ crawler_runs < MaxDeliveries
    /\ crawler_runs' = crawler_runs + 1
    /\ UNCHANGED <<crawler_status, url_status, crawler_pc, crawl_batches,
                   crawl_settings, notCrawlTask>>

CrawlTaskNext ==
    \/ ClaimCrawl
    \/ ValidateRaises
    \/ NothingToDo
    \/ LaunchBatches
    \/ \E k \in 1..((MaxNewUrls + batch_size - 1) \div batch_size),
          outcomes \in [1..MaxNewUrls -> {"CRAWLED", "FAILED"}] :
          CrawlBatch(k, outcomes)
    \/ FinalizeBatches
    \/ CrawlSkipped

CrawlTaskSpec == CrawlTaskInit /\ [][CrawlTaskNext]_vars

\* every execution of url_crawler, every batch subtask and the chord
\* callback run to completion
CrawlTaskFairness ==
    /\ WF_vars(ClaimCrawl)
    /\ WF_vars(ValidateRaises)
    /\ WF_vars(NothingToDo)
    /\ WF_vars(LaunchBatches)
    /\ \A k \in 1..((MaxNewUrls + batch_size - 1) \div batch_size) :
          WF_vars(\E outcomes \in [1..MaxNewUrls -> {"CRAWLED", "FAILED"}] :
                      CrawlBatch(k, outcomes))
    /\ WF_vars(FinalizeBatches)
    /\ WF_vars(CrawlSkipped)

CrawlTaskLiveSpec == CrawlTaskSpec /\ CrawlTaskFairness

(* ------------------------ HttpxCrawler.fetch --------------------------- *)
\* the proxy settings: not set, empty, or a proxy URL
CrawlProxies == {None, "", "http://proxy:8080"}

\* what client.get may answer in one attempt: the status code of a response,
\* or 0 for an exception raised by the request
AttemptStatuses == {200, 404, 429, 500, 0}

\* "options.proxy if options.proxy is not None else default_options.proxy"
CrawlProxy(opts) ==
    IF opts.proxy # None THEN opts.proxy ELSE opts.default_proxy

\* "if not proxy"
ProxyUnset(proxy) == proxy \in {None, ""}

\* "tries = int(retries or 0); if tries < 0: tries = 0"
TriesOf(retries) == IF retries < 0 THEN 0 ELSE retries

\* retryable = status in (0, 429) or 500 <= status < 600
retryable(status) == status \in {0, 429} \/ (500 <= status /\ status < 600)

\* r.raise_for_status() raises unless the response is a 2xx; an exception
\* of the request itself has no response
AttemptRaises(status) == ~(200 <= status /\ status < 300)

\* "if meta["success"] and not retryable: break"
StopsRetrying(success, status) == success /\ ~retryable(status)

\* meta.setdefault(key, value): a key that is there keeps its value, None
\* included
SetDefault(meta, key, value) ==
    IF key \in DOMAIN meta THEN meta
    ELSE [k \in DOMAIN meta \cup {key} |-> IF k = key THEN value ELSE meta[k]]

\* the variables fetch leaves alone
notHttpx == <<coreState, classifyState, extractState, windowState, jobState,
              finderTaskState, crawlTaskState>>

HttpxInit ==
    /\ CoreIdle
    /\ ClassifyIdle
    /\ ExtractIdle
    /\ WindowIdle
    /\ JobIdle
    /\ FinderTaskIdle
    /\ CrawlTaskIdle
    /\ crawl_options \in [default_proxy : CrawlProxies, proxy : CrawlProxies,
                          retries : -1..MaxRetries]
    /\ hx_pc = "start"
    /\ tries = 0
    /\ attempts = <<>>
    /\ doc_status = 0
    /\ doc_meta = [success |-> FALSE, error |-> None]

\* no proxy: raise CrawlError("Crawling requires proxy")
RaiseCrawlError ==
    /\ hx_pc = "start"
    /\ ProxyUnset(CrawlProxy(crawl_options))
    /\ hx_pc' = "raised"
    /\ UNCHANGED <<crawl_options, tries, attempts, doc_status, doc_meta, notHttpx>>

\* the clients are built and the loop over range(tries) is entered
EnterAttempts ==
    /\ hx_pc = "start"
    /\ ~ProxyUnset(CrawlProxy(crawl_options))
    /\ tries' = TriesOf(crawl_options.retries)
    /\ hx_pc' = "attempts"
    /\ UNCHANGED <<crawl_options, attempts, doc_status, doc_meta, notHttpx>>

\* one attempt: the request, raise_for_status, the result or the except
\* clause, and the break
Attempt(status) ==
    /\ hx_pc = "attempts"
    /\ Len(attempts) < tries
    /\ attempts' = Append(attempts, status)
    /\ doc_status' = IF AttemptRaises(status) THEN 0 ELSE status
    /\ doc_meta' = IF AttemptRaises(status)
                   THEN [success |-> FALSE, error |-> "HTTPStatusError"]
                   ELSE [success |-> TRUE, error |-> None]
    /\ hx_pc' = IF StopsRetrying(~AttemptRaises(status), status) THEN "done"
                ELSE "attempts"
    /\ UNCHANGED <<crawl_options, tries, notHttpx>>

\* after the loop: the clients are closed and the CrawlDoc is returned
ReturnDoc ==
    /\ \/ hx_pc = "done"
       \/ hx_pc = "attempts" /\ Len(attempts) >= tries
    /\ doc_meta' = IF ~doc_meta.success
                   THEN SetDefault(doc_meta, "error", "Failed to fetch")
                   ELSE doc_meta
    /\ hx_pc' = "returned"
    /\ UNCHANGED <<crawl_options, tries, attempts, doc_status, notHttpx>>

HttpxNext ==
    \/ RaiseCrawlError
    \/ EnterAttempts
    \/ \E status \in AttemptStatuses : Attempt(status)
    \/ ReturnDoc

HttpxSpec == HttpxInit /\ [][HttpxNext]_vars

(* ============================== claims ================================= *)
\* find_urls stands at a depth boundary (before a depth, after a depth) or
\* has returned
AtDepthBoundary == pc \in {"loop", "depth_end", "final", "returned"}

Fetched(u) == fetch_count[u] > 0

WaitingTasks == {i \in 1..Len(tasks) : tasks[i].st = "waiting"}

\* C1: at every depth boundary and at return no URL is in both
\* successful_urls and failed_urls, whatever the fetch outcomes are
C1_DisjointVisitedSets ==
    AtDepthBoundary => successful_urls \cap failed_urls = {}

\* C2 as stated: when find_urls returns, |successful_urls| <= max_urls for
\* every value of max_urls
C2_NeverOvershootsAnyBudget ==
    pc = "returned" => Cardinality(successful_urls) <= options.max_urls

\* C2 amended: when find_urls returns, |successful_urls| <= max(max_urls, 1);
\* the pre-seeded homepage is the only URL that can exceed a budget below 1
C2_NeverOvershootsBudget ==
    pc = "returned" => Cardinality(successful_urls) <= Max(options.max_urls, 1)

\* a crawl that returned with the budget used up exactly, and more
\* candidates collected than the budget allowed
C2_BudgetUsedUp ==
    /\ pc = "returned"
    /\ options.max_urls >= 2
    /\ Cardinality(successful_urls) = options.max_urls
    /\ depth >= 1

\* C3: the number of _crawl_url fetches in flight never exceeds
\* max_concurrent_requests
C3_ConcurrencyBound ==
    Cardinality(inflight) <= options.max_concurrent_requests

\* the gate is full and holds a coroutine of the batch back
C3_GateHoldsBack ==
    /\ Cardinality(inflight) = options.max_concurrent_requests
    /\ WaitingTasks # {}

\* C4: no URL is fetched more than once, and every fetched URL whose outcome
\* was folded in was folded once and is in exactly one of the visited sets
C4_VisitedExactlyOnce ==
    /\ \A u \in AllUrls : fetch_count[u] <= 1
    /\ \A u \in AllUrls : fold_count[u] <= 1
    /\ AtDepthBoundary =>
          \A u \in AllUrls :
              fold_count[u] > 0 =>
                  (u \in successful_urls) # (u \in failed_urls)

\* C5: every fetch in flight belongs to the batch _process_batch is
\* gathering now: none is left from an earlier batch or an earlier depth
C5_BatchesNeverOverlap ==
    \A f \in inflight :
        pc = "gather" /\ f.depth = depth /\ f.batch_idx = batch_idx

\* a fetch of the second batch of a depth below the homepage is in flight
C5_SecondBatchInFlight ==
    /\ inflight # {}
    /\ depth >= 1
    /\ batch_idx = 2

\* C6: once a folded batch left |successful_urls| >= max_urls, no further
\* fetch is issued
C6_NoFetchAfterTarget ==
    [][reached => fetch_count' = fetch_count]_vars

\* the crawl stopped on the target after fetching below the homepage
C6_StoppedOnTarget ==
    /\ reached
    /\ pc = "returned"
    /\ stop_reason = "max_urls"
    /\ depth >= 1

\* C7: with max_depth = 0 nothing but the homepage is ever fetched, and the
\* returned FindDoc has max_depth_reached = 0 and urls = {homepage}
C7_DepthZeroOnlyHomepage ==
    options.max_depth = 0 =>
        /\ \A u \in AllUrls : Fetched(u) => u = homepage_url
        /\ \A u \in AllUrls : fetch_count[u] <= 1
        /\ pc = "returned" =>
              /\ find_doc.max_depth_reached = 0
              /\ find_doc.urls = {homepage_url}
              /\ fetch_count[homepage_url] = 1

\* a crawl of depth 0 returned although the homepage had links to follow
C7_DepthZeroWithLinks ==
    /\ options.max_depth = 0
    /\ pc = "returned"
    /\ options.max_urls >= 2
    /\ depth_new_urls # <<>>

\* C8: find_urls ends by returning a FindDoc (the missing-proxy FindError
\* aside), and the depth loop ends only on max_urls, an empty frontier or
\* max_depth
C8_AlwaysReturnsFindDoc ==
    /\ pc = "raised" => error = "FindError"
    /\ pc \in {"final", "returned"} =>
          stop_reason \in {"max_urls", "empty_frontier", "max_depth"}

\* C9: when gather returns, the batch has exactly one outcome per URL, in
\* batch order, each carrying its URL, whatever failed; nothing is raised
C9_OneOutcomePerUrl ==
    (pc = "gather" /\ \A i \in 1..Len(tasks) : tasks[i].st = "done") =>
        LET batch == Batch(urls_to_crawl, options.batch_size, batch_idx)
            results == ProcessedResults(tasks)
        IN  /\ Len(results) = Len(batch)
            /\ \A i \in 1..Len(batch) :
                  /\ results[i].url = batch[i]
                  /\ results[i].status \in {"success", "failed", "error"}
            /\ error = None

\* a finished batch of two in which one fetch raised and the other succeeded
C9_MixedBatch ==
    /\ pc = "gather"
    /\ Len(tasks) = 2
    /\ \A i \in 1..Len(tasks) : tasks[i].st = "done"
    /\ \E i, j \in 1..Len(tasks) :
          /\ tasks[i].result.error = "Exception"
          /\ tasks[j].result.status = "success"

\* C10: when a proxy is required and neither the options nor the
\* environment supply one, find_urls raises FindError with no fetch issued
\* and the visited sets untouched
C10_ProxyFailFast ==
    (config.REQUIRE_PROXY /\ options.proxy = None /\ config.env_proxy = None) =>
        /\ pc \in {"call", "raised"}
        /\ pc = "raised" => error = "FindError"
        /\ successful_urls = {} /\ failed_urls = {}
        /\ inflight = {} /\ tasks = <<>>
        /\ \A u \in AllUrls : ~Fetched(u)

\* find_urls raised FindError for the missing proxy
C10_RaisedFindError ==
    /\ pc = "raised"
    /\ error = "FindError"
    /\ config.REQUIRE_PROXY

HasExcludedExtension(u) ==
    \E ext \in EXCLUDED_EXTENSIONS : EndsWith(Lower(u.path), ext)

\* C11: no URL whose path ends in an excluded extension is ever a member of
\* successful_urls
C11_NoExcludedExtensionSucceeds ==
    \A u \in successful_urls : ~HasExcludedExtension(u)

\* a batch below the homepage has finished with a successful fetch, and a
\* page of the batch linked to a URL with an excluded extension
C11_PdfLinkDropped ==
    /\ pc = "gather"
    /\ depth >= 1
    /\ \A i \in 1..Len(tasks) : tasks[i].st = "done"
    /\ \E i \in 1..Len(tasks) : tasks[i].result.status = "success"
    /\ \E u \in rejected_hrefs : HasExcludedExtension(u)

\* C12: every URL that is fetched or is in successful_urls or failed_urls has
\* the netloc of the seed URL, which is the crawl's domain
C12_DomainScoped ==
    \A u \in AllUrls :
        (Fetched(u) \/ u \in successful_urls \/ u \in failed_urls) =>
            /\ u.netloc = domain
            /\ u.netloc = input_url.netloc

\* a fetch below the homepage is in flight, and a page of its batch linked to
\* another host
C12_OffDomainLinkDropped ==
    /\ depth >= 1
    /\ inflight # {}
    /\ \E u \in rejected_hrefs : u.netloc # domain


\* the URLs a session.get was issued for during the running call
FetchedThisCall == {u \in AllUrls : fetch_count[u] > 0}

\* C21: the successful and failed sets and the returned FindDoc of a call
\* hold only URLs visited during that call, also for a second call on the
\* same FinderService.
C21_OnlyUrlsOfThisCall ==
    pc = "returned" =>
        /\ successful_urls \subseteq FetchedThisCall
        /\ failed_urls \subseteq FetchedThisCall
        /\ find_doc.urls \subseteq FetchedThisCall

\* C22: the returned FindDoc's counts match the final crawl state:
\* total_found = successful_crawls = |successful_urls| = |urls|, and
\* failed_crawls = |failed_urls|.
C22_CountsMatchCrawlState ==
    pc = "returned" =>
        /\ find_doc.urls = successful_urls
        /\ find_doc.total_found = Cardinality(successful_urls)
        /\ find_doc.successful_crawls = Cardinality(successful_urls)
        /\ find_doc.failed_crawls = Cardinality(failed_urls)

\* C25: successful_urls and failed_urls change only in a step of find_urls
\* itself taken while no fetch is in flight and every coroutine of the
\* gathered batch has finished; a fetch that starts or completes leaves
\* both sets as they are.
C25_VisitedSetsWrittenBetweenBatches ==
    [][/\ (successful_urls' # successful_urls \/ failed_urls' # failed_urls) =>
             /\ inflight = {}
             /\ \A i \in 1..Len(tasks) : tasks[i].st = "done"
             /\ pc \in {"call", "gather"}
       /\ inflight' # inflight =>
             /\ successful_urls' = successful_urls
             /\ failed_urls' = failed_urls]_vars

\* a fetch of the batch has failed and another one is still in flight: the
\* failed URL is not in failed_urls yet
C25_OutcomeHeldBack ==
    /\ inflight # {}
    /\ \E i \in 1..Len(tasks) :
          /\ tasks[i].st = "done"
          /\ tasks[i].result.status = "failed"
          /\ tasks[i].url \notin failed_urls

\* C26: the max_depth_reached that find_urls returns never exceeds
\* max_depth, and when the crawl stopped because nothing was handed over to
\* depth d it is d - 1, the last depth whose batches were processed.
C26_DepthOfLastProcessedLevel ==
    pc = "returned" =>
        /\ find_doc.max_depth_reached <= Max(options.max_depth, 0)
        /\ stop_reason = "empty_frontier" =>
              find_doc.max_depth_reached = depth - 1

\* the reference filter of the specification
InScope(url, dom, option) ==
    /\ UrlParses(url)
    /\ url.scheme \in {"http", "https"}
    /\ RequireSameDomain(option) => url.netloc = dom
    /\ \A ext \in EXCLUDED_EXTENSIONS : ~EndsWith(Lower(url.path), ext)

\* C27: both scope filters answer true exactly when the URL parses, has
\* scheme http or https, has the crawl domain as host whenever
\* require_same_domain is true, and has a lower-cased path that ends in no
\* excluded extension.
C27_FiltersAgreeWithReference ==
    fn_pc = "filtered" =>
        /\ finder_verdict = InScope(scope_url, scope_domain, require_same_domain)
        /\ processor_verdict = InScope(scope_url, scope_domain, require_same_domain)

\* C28: the outcome of a fetch is success, with the in-scope links of the
\* body, exactly when the response status is in 200..299; every other
\* response yields failed, and a timeout or transport error yields a
\* non-success outcome without new links.
C28_SuccessIffStatus2xx ==
    fn_pc = "fetched" =>
        /\ fetch_result.status = "success" <=>
              /\ fetch_response.kind = "response"
              /\ fetch_response.status \in 200..299
        /\ fetch_result.status = "success" =>
              fetch_result.new_urls =
                  SelectSeq(fetch_response.hrefs,
                            LAMBDA u : _is_valid_domain_url(u, FetchedUrl.netloc))
        /\ fetch_response.kind # "response" =>
              /\ fetch_result.status # "success"
              /\ fetch_result.new_urls = <<>>
        /\ (fetch_response.kind = "response"
              /\ fetch_response.status \notin 200..299) =>
              fetch_result.status = "failed"

\* C29: with max_urls <= 1 the crawl never leaves depth 0, fetches the
\* homepage and nothing else, has fetched it exactly once when the depth
\* loop ends, and ends the loop on the target check right after depth 0.
C29_BudgetOneOnlyHomepage ==
    /\ [](options.max_urls <= 1 =>
            /\ depth = 0
            /\ \A u \in AllUrls : Fetched(u) => u = homepage_url
            /\ \A u \in AllUrls : fetch_count[u] <= 1
            /\ stop_reason # None =>
                  /\ stop_reason = "max_urls"
                  /\ fetch_count[homepage_url] = 1)
    /\ [][(options.max_urls <= 1 /\ pc = "depth_end") => pc' = "final"]_vars

\* a crawl with max_urls <= 1 returned although the homepage had links to
\* follow
C29_LinksLeftUnfollowed ==
    /\ options.max_urls <= 1
    /\ options.max_depth >= 1
    /\ pc = "returned"
    /\ fetch_count[homepage_url] = 1
    /\ depth_new_urls # <<>>

\* the URL budget that is left: max_urls - |successful_urls|, at least 0
RemainingBudget == Max(options.max_urls - Cardinality(successful_urls), 0)

\* the links that the successful fetches of the gathered batch returned
LinksOfSuccessfulFetches ==
    UNION {Range(tasks[i].result.new_urls) :
              i \in {j \in 1..Len(tasks) : tasks[j].result.status = "success"}}

\* the frontier that _process_depth_with_progress returns is within the
\* remaining budget and is cut from the links collected at this depth
FrontierCut ==
    (pc = "depth_end" /\ pc' # "depth_end") =>
        /\ Len(next_depth_urls') <= RemainingBudget
        /\ \E n \in 0..Len(depth_new_urls) :
              next_depth_urls' = SubSeq(depth_new_urls, 1, n)

\* the links a folded batch adds to the collection come from its successful
\* fetches and were in neither visited set before the fold
CollectedFromSuccesses ==
    (pc = "gather" /\ depth_new_urls' # depth_new_urls) =>
        \A i \in (Len(depth_new_urls) + 1)..Len(depth_new_urls') :
            /\ depth_new_urls'[i] \in LinksOfSuccessfulFetches
            /\ depth_new_urls'[i] \notin successful_urls \cup failed_urls

\* a depth below the homepage is entered with no more URLs than the budget
EnteredWithinBudget ==
    (pc = "loop" /\ pc' \in {"gather", "depth_end"}  /\ depth >= 1) =>
        Len(urls_to_crawl') <= RemainingBudget

DeletedNow(m) == sqs_state[m] # "deleted" /\ sqs_state'[m] = "deleted"

\* C23: the worker deletes a message only after the pipeline for it
\* returned or when its body is malformed or lacks "website"; when
\* processing raises, the message is not deleted and stays in the queue for
\* redelivery.
C23_DeletedOnlyAfterSuccess ==
    /\ [][\A m \in DOMAIN sqs_state :
             DeletedNow(m) =>
                 /\ msg = m
                 /\ \/ worker_pc = "processing" /\ task_outcome' = "returned"
                    \/ /\ worker_pc = "received"
                       /\ sqs_bodies[m] \in {"invalid_json", "empty", "no_website"}]_vars
    /\ [](task_outcome = "raised" => sqs_state[msg] \in {"invisible", "visible"})

\* one job was deleted after its pipeline returned, the job in hand raised
\* and is visible again
C23_RaisedJobBackInQueue ==
    /\ \E m \in DOMAIN sqs_state :
          m # msg /\ sqs_bodies[m] = "job" /\ sqs_state[m] = "deleted"
    /\ msg # 0
    /\ task_outcome = "raised"
    /\ sqs_state[msg] = "visible"

\* the position of a stage in the pipeline
StageRank(stage) == CHOOSE i \in 1..Len(PipelineStage) : PipelineStage[i] = stage

\* the stages were invoked in pipeline order, each at most once
InPipelineOrder ==
    \A i, j \in 1..Len(invoked) :
        i < j => StageRank(invoked[i]) < StageRank(invoked[j])

\* stage was invoked during this run
Invoked(stage) == \E i \in 1..Len(invoked) : invoked[i] = stage

\* run_until_stage = FINDER: no crawler, no LLM, and the run returns with
\* completed_stage "finder"; run_until_stage = CRAWLER: no LLM
StopsWhereAsked ==
    /\ run_until_stage = "finder" =>
          /\ ~Invoked("crawler")
          /\ ~Invoked("llm")
          /\ process_pc # "raised"
          /\ process_pc = "returned" => completed_stage = "finder"
    /\ run_until_stage = "crawler" => ~Invoked("llm")

AlreadyVisited == successful_urls \cup failed_urls

\* the canonical key of the claims: host + path + query, scheme excluded
CanonicalKey(u) == <<u.netloc, u.path, u.query>>

\* positions of the candidates that are fragment-free, unvisited and not a
\* repetition of an earlier candidate
SurvivingPositions ==
    {i \in 1..Len(candidate_urls) :
        /\ candidate_urls[i].fragment = ""
        /\ candidate_urls[i] \notin AlreadyVisited
        /\ \A j \in 1..(i - 1) : candidate_urls[j] # candidate_urls[i]}

\* the least position of a non-empty set of positions
FirstOf(positions) == CHOOSE i \in positions : \A j \in positions : i <= j

\* the output URLs that belong to a set of candidate positions
KeptOf(positions) ==
    {u \in Range(deduplicated) : \E i \in positions : candidate_urls[i] = u}

HttpX == ParsedUrl("http", "a.com", "/x", "", "", "")

HttpsX == ParsedUrl("https", "a.com", "/x", "", "", "")

HttpXFrag == ParsedUrl("http", "a.com", "/x", "", "", "frag")

\* C13: _deduplicate_urls is idempotent: applied to its own output with the
\* same visited set it returns that output, same elements in the same order.
C13_Idempotent ==
    fn_pc = "deduped_again" => deduplicated_again = deduplicated

\* a call that dropped candidates and kept at least two, then ran again
C13_DedupedTwice ==
    /\ fn_pc = "deduped_again"
    /\ Len(deduplicated) >= 2
    /\ Len(deduplicated) < Len(candidate_urls)
    /\ AlreadyVisited # {}

\* the rule of C14 for the groups that a set of candidate positions forms:
\* a group with an https URL keeps exactly its first https URL, a group of
\* http URLs only keeps exactly one of them
HttpsRule(positions) ==
    \A k \in {CanonicalKey(candidate_urls[i]) : i \in positions} :
        LET group == {i \in positions : CanonicalKey(candidate_urls[i]) = k}
            https == {i \in group : candidate_urls[i].scheme = "https"}
        IN  /\ https # {} => KeptOf(group) = {candidate_urls[FirstOf(https)]}
            /\ (\A i \in group : candidate_urls[i].scheme = "http") =>
                    Cardinality(KeptOf(group)) = 1

C14_Example ==
    (candidate_urls = <<HttpX, HttpsX>> /\ AlreadyVisited = {}) =>
        deduplicated = <<HttpsX>>

\* C14 (as stated): in every group of candidates sharing host+path+query, a
\* group with an https URL keeps exactly its first https URL and a group of
\* only http URLs keeps exactly one; [http://a.com/x, https://a.com/x] with
\* nothing visited gives [https://a.com/x].
C14_HttpsPreferredAmongCandidates ==
    fn_pc # "dedup" =>
        /\ HttpsRule(1..Len(candidate_urls))
        /\ C14_Example

\* C14 (amended): the same for the groups of the candidates that are
\* fragment-free and not yet visited.
C14_HttpsPreferredAmongSurvivors ==
    fn_pc # "dedup" =>
        /\ HttpsRule(SurvivingPositions)
        /\ C14_Example

\* the example of the claim has been deduplicated
C14_HttpsReplacesHttp ==
    /\ fn_pc = "deduped"
    /\ candidate_urls = <<HttpX, HttpsX>>
    /\ AlreadyVisited = {}
    /\ deduplicated = <<HttpsX>>

\* C15: the output never holds a URL with a fragment, a fragment-free
\* unvisited candidate keeps a representative of its key although a
\* fragment sibling was dropped, and [http://a.com/x#frag, http://a.com/x]
\* gives [http://a.com/x].
C15_FragmentsDropped ==
    fn_pc # "dedup" =>
        /\ \A u \in Range(deduplicated) : u.fragment = ""
        /\ \A i \in 1..Len(candidate_urls) :
              (candidate_urls[i].fragment = "" /\ candidate_urls[i] \notin AlreadyVisited) =>
                  \E u \in Range(deduplicated) :
                      CanonicalKey(u) = CanonicalKey(candidate_urls[i])
        /\ (candidate_urls = <<HttpXFrag, HttpX>> /\ AlreadyVisited = {}) =>
                deduplicated = <<HttpX>>

\* the example of the claim has been deduplicated
C15_SiblingKept ==
    /\ fn_pc = "deduped"
    /\ candidate_urls = <<HttpXFrag, HttpX>>
    /\ AlreadyVisited = {}
    /\ deduplicated = <<HttpX>>

FirstOccurrence(u) ==
    FirstOf({i \in 1..Len(candidate_urls) : candidate_urls[i] = u})

\* position of the first surviving candidate with the canonical key of u
FirstOfGroup(u) ==
    FirstOf({i \in SurvivingPositions :
                CanonicalKey(candidate_urls[i]) = CanonicalKey(u)})

\* C17 (as stated): u precedes v in the output exactly when the first
\* occurrence of u among the candidates precedes that of v.
C17_OrderOfRepresentatives ==
    fn_pc # "dedup" =>
        \A i, j \in 1..Len(deduplicated) :
            i < j <=> FirstOccurrence(deduplicated[i]) < FirstOccurrence(deduplicated[j])

\* C17 (amended): u precedes v in the output exactly when the first
\* fragment-free unvisited candidate with u's canonical key precedes the
\* first one with v's.
C17_OrderOfGroups ==
    fn_pc # "dedup" =>
        \A i, j \in 1..Len(deduplicated) :
            i < j <=> FirstOfGroup(deduplicated[i]) < FirstOfGroup(deduplicated[j])

\* an https representative that came after another group's URL leads the
\* output because its http variant came first
C17_RepresentativeMovedUp ==
    /\ fn_pc = "deduped"
    /\ Len(deduplicated) >= 2
    /\ FirstOccurrence(deduplicated[1]) > FirstOccurrence(deduplicated[2])

(* ----------------------- select_urls_to_crawl -------------------------- *)
\* the bucket of a category for the call's URLs, in input order
BucketUrls(category) ==
    categorized(category, found_urls, found_homepage, PRIORITY_PAGE_PATTERNS)

\* the bucket order the claims state
BucketOrder ==
    <<"homepage", "about", "faq", "product", "brand_blog", "sitemap", "blog", "other">>

\* the bucket of every category of the stated order, as the loop over urls
\* leaves it
BucketLists == [k \in 1..Len(BucketOrder) |-> BucketUrls(BucketOrder[k])]

\* the buckets, each sorted, one after the other in the stated order
RECURSIVE BucketsFrom(_, _)
BucketsFrom(buckets, k) ==
    IF k > Len(buckets) THEN <<>>
    ELSE sorted(buckets[k]) \o BucketsFrom(buckets, k + 1)

\* selected is the first max_to_crawl entries of the list
CutOf(joined) == selected = SubSeq(joined, 1, Min(max_to_crawl, Len(joined)))

NonBlankUrls == {Strip(u) : u \in Range(found_urls)} \ {""}

\* how often the loop appended url to a bucket
TimesIn(bucket, url) == Len(SelectSeq(bucket, LAMBDA u : u = url))

RECURSIVE TimesPlacedFrom(_, _, _)
TimesPlacedFrom(buckets, k, url) ==
    IF k > Len(buckets) THEN 0
    ELSE TimesIn(buckets[k], url) + TimesPlacedFrom(buckets, k + 1, url)

\* the number of bucket entries made for url
TimesPlaced(buckets, url) == TimesPlacedFrom(buckets, 1, url)

\* selected lists exactly the URLs of the set, each once
PermutationOf(urls) ==
    /\ Range(selected) = urls
    /\ Len(selected) = Cardinality(urls)

IsBareBlogIndex(url) == RStrip(get_url_path(url), {"/"}) \in {"/blog", "blog"}

C20_OrderIndependent ==
    /\ fn_pc = "selected" =>
          \A buckets \in {BucketLists} :
              \A k \in 1..Len(BucketOrder) : \A i, j \in 1..Len(selected) :
                  (/\ i < j
                   /\ selected[i] \in Range(buckets[k])
                   /\ selected[j] \in Range(buckets[k])) =>
                      StrLess(selected[i], selected[j])
    /\ fn_pc = "selected_reordered" => selected_reordered = selected

\* two URLs of one bucket given in descending order, selected, and selected
\* again from another order
C20_ReorderedSameResult ==
    /\ fn_pc = "selected_reordered"
    /\ reordered
    /\ found_urls = <<"/random", "/news/today", "/blog/acme-tips">>
    /\ found_homepage = None
    /\ max_to_crawl = 2
    /\ selected = <<"/blog/acme-tips", "/news/today">>

(* --------------- select_urls_to_crawl with a single URL ---------------- *)
\* tokens_for_url of the round: the homepage's brand tokens, or those of the
\* URL's own domain
TokensForUrl(url, homepage) ==
    IF BrandTokens(homepage) # {} THEN BrandTokens(homepage)
    ELSE brand_tokens_from_domain(url)

\* the path contains "/blog" and a brand token
BrandInBlogPath(url, homepage) ==
    /\ Contains(get_url_path(url), "/blog")
    /\ \E token \in TokensForUrl(url, homepage) :
          Contains(get_url_path(url), token)

\* C31: a URL whose path is "/blog" or "/blog/" is never returned by
\* select_urls_to_crawl with the configured patterns, whatever the homepage.
C31_BareBlogIndexNeverReturned ==
    fn_pc = "classified" =>
        \A i \in 1..Len(selected) :
            get_url_path(selected[i]) \notin {"/blog", "/blog/"}

\* C32: a URL whose path contains "/blog" and a brand token is appended to
\* brand_blog and to no other bucket, also when its path matches the
\* patterns of a configured category.
C32_BrandBlogBeforeCategories ==
    fn_pc = "classified" =>
        \A url \in {Strip(found_urls[1])} :
            BrandInBlogPath(url, found_homepage) => classified = <<"brand_blog">>

\* a brand blog post under /about was appended to brand_blog
C32_BrandBlogUnderAbout ==
    /\ fn_pc = "classified"
    /\ found_urls = <<"/about/blog/acme">>
    /\ found_homepage = "https://acme.com"
    /\ matches_priority_pattern(found_urls[1], PRIORITY_PAGE_PATTERNS[2].patterns)
    /\ classified = <<"brand_blog">>

\* a path matches a pattern as the specification words it: equal, prefix
\* followed by "/" or "?", or substring
MatchesAsWorded(url_path, pattern) ==
    \/ url_path = pattern
    \/ StartsWith(url_path, pattern \o "/")
    \/ StartsWith(url_path, pattern \o "?")
    \/ Contains(url_path, pattern)

\* the same, with the patterns "/" and "" matching the paths "/" and "" only
MatchesAsCoded(url_path, pattern) ==
    IF pattern \in {"/", ""} THEN url_path \in {"/", ""}
    ELSE MatchesAsWorded(url_path, pattern)

\* the categories, by position, of which some pattern matches the path
WordedMatches(url_path) ==
    {i \in 1..Len(PRIORITY_PAGE_PATTERNS) :
        \E k \in 1..Len(PRIORITY_PAGE_PATTERNS[i].patterns) :
            MatchesAsWorded(url_path, PRIORITY_PAGE_PATTERNS[i].patterns[k])}

CodedMatches(url_path) ==
    {i \in 1..Len(PRIORITY_PAGE_PATTERNS) :
        \E k \in 1..Len(PRIORITY_PAGE_PATTERNS[i].patterns) :
            MatchesAsCoded(url_path, PRIORITY_PAGE_PATTERNS[i].patterns[k])}

\* the bucket of the first of the matching categories; a match of blog goes
\* to brand_blog when a brand token occurs in the path
BucketOfFirst(matches, url, homepage) ==
    \A first \in {CHOOSE i \in matches : \A j \in matches : i <= j} :
        IF PRIORITY_PAGE_PATTERNS[first].category # "blog"
        THEN classified = <<PRIORITY_PAGE_PATTERNS[first].category>>
        ELSE IF \E token \in TokensForUrl(url, homepage) :
                   Contains(get_url_path(url), token)
             THEN classified = <<"brand_blog">>
             ELSE classified = <<"blog">>

\* C33 as stated: a URL not taken by the fast path lands in the bucket of the
\* first configured category of which a pattern is equal to, a prefix
\* (followed by "/" or "?") of, or a substring of its path.
C33_FirstWordedMatchWins ==
    fn_pc = "classified" =>
        \A url \in {Strip(found_urls[1])} :
            (~BrandInBlogPath(url, found_homepage)
             /\ WordedMatches(get_url_path(url)) # {}) =>
                BucketOfFirst(WordedMatches(get_url_path(url)), url, found_homepage)

\* C33 amended: the same with the homepage patterns "/" and "" matching only
\* the paths "/" and "", and with a bare blog index, whose first match is the
\* blog category, appended to no bucket.
C33_FirstCodedMatchWins ==
    fn_pc = "classified" =>
        \A url \in {Strip(found_urls[1])} :
            (~BrandInBlogPath(url, found_homepage)
             /\ CodedMatches(get_url_path(url)) # {}) =>
                IF IsBareBlogIndex(url) THEN classified = <<>>
                ELSE BucketOfFirst(CodedMatches(get_url_path(url)), url,
                                   found_homepage)

\* a URL that matches the about patterns and the blog patterns was appended
\* to about only
C33_AboutBeforeBlog ==
    /\ fn_pc = "classified"
    /\ found_urls = <<"/about/news">>
    /\ {2, 6} \subseteq CodedMatches(get_url_path(found_urls[1]))
    /\ classified = <<"about">>

(* ---------------- link extraction during the crawl --------------------- *)
\* the absolute URLs of the hrefs that are not skipped, over a, area and link
ResolvedKept(tags, base) ==
    {urljoin(base, tags[i].href) : i \in {k \in 1..Len(tags) :
        tags[k].href # "" /\ ~StartsWithSkipped(tags[k].href)}}

\* C34: the links the crawl takes from a page are the in-scope absolute URLs
\* of the a, area and link elements whose href starts with none of "#",
\* "javascript:", "mailto:" and "tel:", and the frontier holds no URL that
\* comes from a skipped href only
C34_CrawlSkipsAndResolves ==
    fn_pc = "crawled" =>
        /\ crawl_links = {u \in ResolvedKept(page_tags, PageUrl) :
                            _is_valid_domain_url(u, PageUrl.netloc)}
        /\ link_frontier \subseteq ResolvedKept(page_tags, PageUrl)

JobMoves ==
    { <<"queued", "running">>, <<"running", "succeeded">>,
      <<"running", "failed">> }

FinderMoves ==
    { <<"PENDING", "RUNNING">>, <<"RUNNING", "FINISHED">>,
      <<"RUNNING", "FAILED">> }

\* the executions that got past the claim
PassedClaim == {t \in FinderTasks : finder_pc[t] \notin {"start", "unclaimed"}
                                     /\ finder_return[t] # "skipped"}

\* C37: url_finder_status only moves PENDING -> RUNNING -> FINISHED or
\* FAILED; of all executions of url_finder for a state at most one passes
\* the claim and runs the crawl, every other one returns "skipped" and
\* leaves the row as it found it, and a FINISHED or FAILED row is never
\* written again
C37_StateClaimedOnce ==
    /\ \A i \in 1..(Len(state_history) - 1) :
          <<state_history[i].url_finder_status,
            state_history[i + 1].url_finder_status>> \in FinderMoves
    /\ state_row = state_history[Len(state_history)]
    /\ Cardinality(PassedClaim) <= 1
    /\ crawl_runs <= Cardinality(PassedClaim)
    /\ \A t \in FinderTasks :
          finder_pc[t] = "returned" /\ t \notin PassedClaim =>
              finder_return[t] = "skipped"
    /\ state_history[1].url_finder_status # "PENDING" =>
          /\ PassedClaim = {}
          /\ state_history = <<state_row>>

\* three executions for a PENDING state: one ran the crawl and finished the
\* state, the others returned "skipped"
C37_OthersSkipped ==
    /\ state_history[1].url_finder_status = "PENDING"
    /\ state_row.url_finder_status = "FINISHED"
    /\ crawl_runs = 1
    /\ \E t \in FinderTasks :
          /\ finder_return[t] = "success"
          /\ \A u \in FinderTasks \ {t} : finder_return[u] = "skipped"

(* ------------------ the url_crawler task comes to an end --------------- *)
\* C38: once url_crawler has claimed a state, its url_crawler_status is
\* eventually FINISHED or FAILED and every URL of the state is eventually
\* CRAWLED or FAILED, whatever the number of NEW URLs, when every batch
\* subtask and the chord callback run to completion
C38_CrawlEventuallySettles ==
    (crawler_pc = "claimed") ~>
        (/\ crawler_status \in {"FINISHED", "FAILED"}
         /\ \A i \in 1..Len(url_status) : url_status[i] \in {"CRAWLED", "FAILED"})

(* -------------------- what HttpxCrawler.fetch returns ------------------ *)
\* the attempts that answered with a status fetch takes for a success
SucceededAttempts ==
    {i \in 1..Len(attempts) : StopsRetrying(~AttemptRaises(attempts[i]), attempts[i])}

\* C39: without a proxy fetch raises CrawlError before any request; with one
\* it makes at most retries attempts and none after the first attempt that
\* succeeded with a status that is not retryable, it returns a CrawlDoc, and
\* a CrawlDoc with meta.success false has status 0 and an error that is not
\* empty
C39_FetchContract ==
    /\ ProxyUnset(CrawlProxy(crawl_options)) =>
          hx_pc \in {"start", "raised"} /\ attempts = <<>>
    /\ hx_pc = "raised" => ProxyUnset(CrawlProxy(crawl_options))
    /\ Len(attempts) <= Max(crawl_options.retries, 0)
    /\ \A i \in SucceededAttempts : i = Len(attempts)
    /\ hx_pc = "returned" /\ ~doc_meta.success =>
          /\ doc_status = 0
          /\ doc_meta.error \notin {None, ""}

====
